---- MODULE Spec2Model ----
(***************************************************************************)
(* A model of microemu.c: the bytecode interpreter (CPU, execute_instruction,*)
(* run_program), the text/pixel screen (putchar_screen and friends), the    *)
(* keyboard buffer (InputBuffer) and the two threads that share them (the   *)
(* main thread running the shell and the VM, and window_thread).            *)
(***************************************************************************)
EXTENDS Integers, Naturals, Sequences, FiniteSets, TLC

VARIABLES cpu, screen, input_buf, window_running, main, win, fs, hist

vars == <<cpu, screen, input_buf, window_running, main, win, fs, hist>>

(***************************************************************************)
(* Program constants (the #defines of microemu.c).                          *)
(***************************************************************************)
MEM_SIZE == 65536
STACK_SIZE == 256
SCREEN_WIDTH == 80
SCREEN_HEIGHT == 25
INPUT_BUFFER_SIZE == 256
PIXEL_WIDTH == 320
PIXEL_HEIGHT == 200

OP_HALT == 0
OP_PRINT_CHAR == 1
OP_PRINT_STR == 2
OP_CLEAR_SCREEN == 4
OP_SET_COLOR == 5
OP_GET_CURSOR == 6
OP_SET_CURSOR == 7
OP_DRAW_LINE == 8
OP_DRAW_RECT == 9
OP_FILL_RECT == 10
OP_DRAW_CIRCLE == 11
OP_SLEEP_MS == 32
OP_BEEP == 33
OP_GET_TIME == 34
OP_RANDOM == 35
OP_SET_PIXEL == 48
OP_CLEAR_PIXELS == 49
OP_DRAW_SPRITE == 50
OP_LOAD_REG == 64
OP_STORE_REG == 65
OP_PUSH == 66
OP_POP == 67
OP_ADD == 80
OP_SUB == 81
OP_MUL == 82
OP_DIV == 83
OP_MOD == 84
OP_AND == 85
OP_OR == 86
OP_XOR == 87
OP_NOT == 88
OP_SHL == 89
OP_SHR == 90
OP_CMP == 91
OP_JMP == 96
OP_JZ == 97
OP_JNZ == 98
OP_JG == 99
OP_JL == 100
OP_CALL == 101
OP_RET == 102
OP_READ_CHAR == 112
OP_KEY_PRESSED == 113
OP_LOAD_MEM == 128
OP_STORE_MEM == 129
OP_COPY_MEM == 130

COLOR_YELLOW == 6
COLOR_WHITE == 7
COLOR_BRIGHT_GREEN == 10
COLOR_BRIGHT_CYAN == 11
COLOR_BRIGHT_YELLOW == 14

\* The keysyms window_thread tests for (X11/keysymdef.h).
XK_Return == 65293
XK_BackSpace == 65288

\* The character codes the code compares against.
NL == 10
CR == 13
BS == 8
TAB == 9
SPACE == 32

\* uint16_t and uint8_t arithmetic wraps.
U16(n) == n % 65536
U8(n) == n % 256

(***************************************************************************)
(* Arrays are kept sparse: a function on the indices that differ from the   *)
(* array's fill value d.  Get reads an element, Put stores one.             *)
(***************************************************************************)
Get(m, k, d) == IF k \in DOMAIN m THEN m[k] ELSE d

Put(m, k, v, d) ==
    IF v = d
    THEN [x \in DOMAIN m \ {k} |-> m[x]]
    ELSE [x \in DOMAIN m \cup {k} |-> IF x = k THEN v ELSE m[x]]

Empty == [x \in {} |-> 0]

\* cpu.memory[a]
Mem(c, a) == Get(c.memory, a, 0)

(***************************************************************************)
(* The screen.                                                              *)
(***************************************************************************)
\* init_screen: every cell a space in COLOR_WHITE, pixels zeroed, cursor home.
init_screen ==
    [chars |-> Empty, colors |-> Empty, pixels |-> Empty,
     cursor_x |-> 0, cursor_y |-> 0, cursor_visible |-> TRUE,
     dirty |-> TRUE, pixel_mode |-> FALSE, current_color |-> COLOR_WHITE]

clear_screen_display == init_screen

\* clear_pixels
clear_pixels(s) == [s EXCEPT !.pixels = Empty, !.dirty = TRUE]

\* A scroll that moves the glyphs and blanks the last row but leaves the
\* colours where they are.
ScrollUpGlyphsOnly(s) ==
    LET ch == [p \in {<<q[1] - 1, q[2]>> : q \in {r \in DOMAIN s.chars : r[1] >= 1}}
                  |-> s.chars[<<p[1] + 1, p[2]>>]]
        last == {<<SCREEN_HEIGHT - 1, x>> : x \in 0 .. SCREEN_WIDTH - 1}
    IN [s EXCEPT !.chars = [p \in DOMAIN ch \ last |-> ch[p]],
                 !.cursor_y = SCREEN_HEIGHT - 1]

\* The scroll of putchar_screen: rows 1..24 move up, the last row is blanked
\* in the current colour.
ScrollUp(s) ==
    LET moved(m) == [p \in {<<q[1] - 1, q[2]>> : q \in {r \in DOMAIN m : r[1] >= 1}}
                        |-> m[<<p[1] + 1, p[2]>>]]
        ch == moved(s.chars)
        co == moved(s.colors)
        last == {<<SCREEN_HEIGHT - 1, x>> : x \in 0 .. SCREEN_WIDTH - 1}
        co2 == IF s.current_color = COLOR_WHITE
               THEN [p \in DOMAIN co \ last |-> co[p]]
               ELSE [p \in DOMAIN co \cup last |->
                        IF p \in last THEN s.current_color ELSE co[p]]
    IN [s EXCEPT !.chars = [p \in DOMAIN ch \ last |-> ch[p]],
                 !.colors = co2,
                 !.cursor_y = SCREEN_HEIGHT - 1]

\* (cursor_x + 4) & ~3
TabStop(x) == ((x + 4) \div 4) * 4

putchar_screen(s, c) ==
    LET t ==
        IF c = NL THEN [s EXCEPT !.cursor_y = s.cursor_y + 1, !.cursor_x = 0]
        ELSE IF c = CR THEN [s EXCEPT !.cursor_x = 0]
        ELSE IF c = BS
             THEN IF s.cursor_x > 0 THEN [s EXCEPT !.cursor_x = s.cursor_x - 1] ELSE s
        ELSE IF c = TAB THEN [s EXCEPT !.cursor_x = TabStop(s.cursor_x)]
        ELSE LET w == IF s.cursor_x >= SCREEN_WIDTH
                      THEN [s EXCEPT !.cursor_x = 0, !.cursor_y = s.cursor_y + 1]
                      ELSE s
                 r == IF w.cursor_y >= SCREEN_HEIGHT THEN ScrollUp(w) ELSE w
                 at == <<r.cursor_y, r.cursor_x>>
             IN [r EXCEPT !.chars = Put(r.chars, at, c, SPACE),
                          !.colors = Put(r.colors, at, r.current_color, COLOR_WHITE),
                          !.cursor_x = r.cursor_x + 1]
    IN [t EXCEPT !.dirty = TRUE]

\* print_to_screen: putchar_screen over the bytes of a string.  (The screen
\* after each byte is bound as the element of a one-element set, so that TLC
\* computes it once before it goes on to the next byte.)
RECURSIVE print_to_screen(_, _)
print_to_screen(s, str) ==
    IF str = <<>> THEN s
    ELSE CHOOSE r \in {print_to_screen(t, Tail(str)) : t \in {putchar_screen(s, Head(str))}} :
            TRUE

(***************************************************************************)
(* Pixel primitives.  The plane maps <<x, y>> to the pixel, 0 left out.     *)
(***************************************************************************)
\* set_pixel without the test of x and y.
set_pixel_unclipped(s, x, y, value) ==
    [s EXCEPT !.pixels = Put(@, <<x, y>>, IF value # 0 THEN 1 ELSE 0, 0), !.dirty = TRUE]

\* set_pixel: pixels[y][x] = value ? 1 : 0 inside the plane.  The plane is
\* kept sparse: the pixels that are not 0.
set_pixel(s, x, y, value) ==
    IF x >= 0 /\ x < PIXEL_WIDTH /\ y >= 0 /\ y < PIXEL_HEIGHT
    THEN [s EXCEPT !.pixels = Put(@, <<x, y>>, IF value # 0 THEN 1 ELSE 0, 0),
                   !.dirty = TRUE]
    ELSE s

Abs(n) == IF n < 0 THEN -n ELSE n

\* draw_line: Bresenham.  LineStep is one iteration of the while loop on
\* st = the screen, x0, y0, err and whether the loop has left by its break.
LineStep(st, x1, y1, dx, dy, sx, sy) ==
    LET t == set_pixel(st.s, st.x, st.y, 1)
        e2 == 2 * st.err
        stepx == e2 >= dy
        stepy == e2 <= dx
    IN IF st.done THEN st
       ELSE IF st.x = x1 /\ st.y = y1 THEN [st EXCEPT !.s = t, !.done = TRUE]
       ELSE [s |-> t,
             x |-> IF stepx THEN st.x + sx ELSE st.x,
             y |-> IF stepy THEN st.y + sy ELSE st.y,
             err |-> st.err + (IF stepx THEN dy ELSE 0) + (IF stepy THEN dx ELSE 0),
             done |-> FALSE]

\* The while loop: up to 2^k iterations, until the break.
RECURSIVE LineLoop(_, _, _, _, _, _, _, _)
LineLoop(st, x1, y1, dx, dy, sx, sy, k) ==
    IF st.done THEN st
    ELSE IF k = 0 THEN LineStep(st, x1, y1, dx, dy, sx, sy)
    ELSE LineLoop(LineLoop(st, x1, y1, dx, dy, sx, sy, k - 1), x1, y1, dx, dy, sx, sy, k - 1)

\* A line between two uint16_t points has at most 65536 = 2^16 pixels.
draw_line(s, x0, y0, x1, y1) ==
    LET dx == Abs(x1 - x0)
        dy == -Abs(y1 - y0)
    IN LineLoop([s |-> s, x |-> x0, y |-> y0, err |-> dx + dy, done |-> FALSE],
                x1, y1, dx, dy,
                IF x0 < x1 THEN 1 ELSE -1, IF y0 < y1 THEN 1 ELSE -1, 17).s

\* The pixels a loop of set_pixel(.., 1) calls lights: the in-range ones.
Light(s, pts) ==
    LET inside == {p \in pts : p[1] >= 0 /\ p[1] < PIXEL_WIDTH
                               /\ p[2] >= 0 /\ p[2] < PIXEL_HEIGHT}
    IN IF inside = {} THEN s
       ELSE [s EXCEPT !.pixels = [p \in DOMAIN @ \cup inside |-> IF p \in inside THEN 1 ELSE @[p]],
                      !.dirty = TRUE]

draw_rect(s, x, y, w, h) ==
    Light(s, {<<x + i, y>> : i \in 0 .. w - 1} \cup {<<x + i, y + h - 1>> : i \in 0 .. w - 1}
             \cup {<<x, y + i>> : i \in 0 .. h - 1} \cup {<<x + w - 1, y + i>> : i \in 0 .. h - 1})

fill_rect(s, x, y, w, h) ==
    Light(s, {<<x + j, y + i>> : j \in 0 .. w - 1, i \in 0 .. h - 1})

\* draw_circle: midpoint circle.  CircleStep is one iteration of
\* while (x >= y) on st = the screen, x, y, err and whether the loop is over:
\* eight points, then the two updates.
CircleStep(st, cx, cy) ==
    LET x == st.x
        y == st.y
        t == Light(st.s, {<<cx + x, cy + y>>, <<cx + y, cy + x>>, <<cx - y, cy + x>>,
                          <<cx - x, cy + y>>, <<cx - x, cy - y>>, <<cx - y, cy - x>>,
                          <<cx + y, cy - x>>, <<cx + x, cy - y>>})
        y1 == IF st.err <= 0 THEN y + 1 ELSE y
        e1 == IF st.err <= 0 THEN st.err + 2 * y1 + 1 ELSE st.err
        x1 == IF e1 > 0 THEN x - 1 ELSE x
        e2 == IF e1 > 0 THEN e1 - (2 * x1 + 1) ELSE e1
    IN IF st.done THEN st
       ELSE IF x < y THEN [st EXCEPT !.done = TRUE]
       ELSE [s |-> t, x |-> x1, y |-> y1, err |-> e2, done |-> FALSE]

\* The while loop: up to 2^k iterations, until x < y.
RECURSIVE CircleLoop(_, _, _, _)
CircleLoop(st, cx, cy, k) ==
    IF st.done THEN st
    ELSE IF k = 0 THEN CircleStep(st, cx, cy)
    ELSE CircleLoop(CircleLoop(st, cx, cy, k - 1), cx, cy, k - 1)

\* x - y shrinks in every iteration, so a uint16_t radius ends the loop
\* within 2^17 iterations.
draw_circle(s, cx, cy, radius) ==
    CircleLoop([s |-> s, x |-> radius, y |-> 0, err |-> 0, done |-> FALSE], cx, cy, 17).s

(***************************************************************************)
(* Bitwise operators on naturals.                                           *)
(***************************************************************************)
RECURSIVE BitAnd(_, _)
BitAnd(a, b) ==
    IF a = 0 \/ b = 0 THEN 0
    ELSE (a % 2) * (b % 2) + 2 * BitAnd(a \div 2, b \div 2)

RECURSIVE BitOr(_, _)
BitOr(a, b) ==
    IF a = 0 THEN b
    ELSE IF b = 0 THEN a
    ELSE (IF a % 2 = 1 \/ b % 2 = 1 THEN 1 ELSE 0) + 2 * BitOr(a \div 2, b \div 2)

RECURSIVE BitXor(_, _)
BitXor(a, b) ==
    IF a = 0 THEN b
    ELSE IF b = 0 THEN a
    ELSE ((a + b) % 2) + 2 * BitXor(a \div 2, b \div 2)

RECURSIVE Pow2(_)
Pow2(n) == IF n = 0 THEN 1 ELSE 2 * Pow2(n - 1)

(***************************************************************************)
(* The file system.  fs.disk is the directory ./fs, a function from the     *)
(* names of its files to their bytes; fs.files is the cache scan_filesystem *)
(* fills from it (fewer than 64 files, names shorter than 64 characters).   *)
(***************************************************************************)
\* The directory as the specifications that use no file command see it.
FsAtBoot == [disk |-> <<>>, files |-> <<>>]

\* scan_filesystem: the cache is dropped and every file loaded again.
scan_filesystem(f) == [f EXCEPT !.files = f.disk]

\* find_file looks in the cache.
find_file(f, name) == name \in DOMAIN f.files

\* write_file: fopen(path, "wb") creates or truncates the file, fwrite
\* writes the bytes; rc is -1 if fopen failed.
write_file(f, filename, data, ok) ==
    IF ok
    THEN [fs |-> [f EXCEPT !.disk = [n \in DOMAIN f.disk \cup {filename} |->
                                        IF n = filename THEN data ELSE f.disk[n]]],
          rc |-> 0]
    ELSE [fs |-> f, rc |-> -1]

\* delete_file: remove(path).
delete_file(f, filename, ok) ==
    IF ok /\ filename \in DOMAIN f.disk
    THEN [fs |-> [f EXCEPT !.disk = [n \in DOMAIN f.disk \ {filename} |-> f.disk[n]]], rc |-> 0]
    ELSE [fs |-> f, rc |-> -1]

cmd_rm(f, s, filename, ok) ==
    IF ~find_file(f, filename)
    THEN [fs |-> f,
          screen |-> print_to_screen(s, <<69, 114, 114, 111, 114, 58, 32, 70, 105, 108, 101, 32,
                                         110, 111, 116, 32, 102, 111, 117, 110, 100, NL>>)]
    ELSE LET d == delete_file(f, filename, ok.remove)
         IN IF d.rc = 0
            THEN [fs |-> scan_filesystem(d.fs),
                  screen |-> print_to_screen(s, <<70, 105, 108, 101, 32, 100, 101, 108, 101,
                                                 116, 101, 100, 46, NL>>)]
            ELSE [fs |-> d.fs,
                  screen |-> print_to_screen(s, <<69, 114, 114, 111, 114, 58, 32, 67, 111, 117,
                                                 108, 100, 32, 110, 111, 116, 32, 100, 101, 108,
                                                 101, 116, 101, 32, 102, 105, 108, 101, NL>>)]

cmd_cp(f, s, src, dst, ok) ==
    IF ~find_file(f, src)
    THEN [fs |-> f,
          screen |-> print_to_screen(s, <<69, 114, 114, 111, 114, 58, 32, 83, 111, 117, 114, 99,
                                         101, 32, 102, 105, 108, 101, 32, 110, 111, 116, 32,
                                         102, 111, 117, 110, 100, NL>>)]
    ELSE LET w == write_file(f, dst, f.files[src], ok.write)
         IN IF w.rc = 0
            THEN [fs |-> scan_filesystem(w.fs),
                  screen |-> print_to_screen(s, <<70, 105, 108, 101, 32, 99, 111, 112, 105,
                                                 101, 100, 46, NL>>)]
            ELSE [fs |-> w.fs,
                  screen |-> print_to_screen(s, <<69, 114, 114, 111, 114, 58, 32, 67, 111, 117,
                                                 108, 100, 32, 110, 111, 116, 32, 99, 111, 112,
                                                 121, 32, 102, 105, 108, 101, NL>>)]

\* cmd_mv: cmd_cp(src, dst); cmd_rm(src).
cmd_mv(f, s, src, dst, ok) ==
    LET c == cmd_cp(f, s, src, dst, ok)
    IN cmd_rm(c.fs, c.screen, src, ok)

(***************************************************************************)
(* The CPU.  cpu.ub records that a store went outside cpu.memory (undefined *)
(* behaviour in C).                                                         *)
(***************************************************************************)
\* init_cpu: memset of the whole structure, memory included, then sp.
init_cpu ==
    [memory |-> Empty, pc |-> 0, sp |-> STACK_SIZE - 1,
     regs |-> [r \in 0 .. 7 |-> 0], flags |-> 0, running |-> FALSE, ub |-> FALSE]

\* load_program without the test of the file's size.
load_program_unchecked(c, image, size) ==
    [c EXCEPT !.memory = [a \in (DOMAIN c.memory \ (0 .. size - 1)) \cup DOMAIN image |->
                             IF a \in DOMAIN image THEN image[a] ELSE c.memory[a]],
              !.pc = 0, !.running = TRUE]

\* load_program after find_file succeeded: image is the file's bytes, a
\* function on 0 .. size-1 kept sparse (the bytes that are not 0); size is
\* the file's length.
load_program(c, image, size) ==
    IF size > MEM_SIZE THEN c
    ELSE [c EXCEPT !.memory = [a \in (DOMAIN c.memory \ (0 .. size - 1)) \cup DOMAIN image |->
                                   IF a \in DOMAIN image THEN image[a] ELSE c.memory[a]],
                   !.pc = 0, !.running = TRUE]

\* The 16-bit word w with its low (k = 0) or high (k = 1) byte replaced by v.
SetByte(w, k, v) == IF k = 0 THEN (w \div 256) * 256 + v ELSE v * 256 + (w % 256)

\* A store past the end of cpu.memory.  The members that follow the array in
\* the CPU structure are pc, sp, regs[8] and flags, at the offsets 0, 2, 4
\* and 20 (16-bit words, low byte first): a store at one of them changes that
\* member.  A store further out hits padding, running or another object:
\* only ub records it.
StrayStore(c, off, v) ==
    LET d == [c EXCEPT !.ub = TRUE]
    IN IF off \in {0, 1} THEN [d EXCEPT !.pc = SetByte(@, off, v)]
       ELSE IF off \in {2, 3} THEN [d EXCEPT !.sp = SetByte(@, off - 2, v)]
       ELSE IF off \in 4 .. 19
            THEN [d EXCEPT !.regs[(off - 4) \div 2] = SetByte(@, off % 2, v)]
       ELSE IF off = 20 THEN [d EXCEPT !.flags = v]
       ELSE d

\* A store cpu.memory[a] = v: inside the array it lands, outside it is a
\* stray store into whatever follows the array.
Store(c, a, v) ==
    IF a >= 0 /\ a < MEM_SIZE
    THEN [c EXCEPT !.memory = Put(c.memory, a, v, 0)]
    ELSE StrayStore(c, a - MEM_SIZE, v)

\* The two bytes taken the other way round.
WordBigEndian(c, p) == 256 * Mem(c, U16(p)) + Mem(c, U16(p + 1))

\* x = memory[pc++]; x |= memory[pc++] << 8  (two statements: little-endian)
Word(c, p) == Mem(c, U16(p)) + 256 * Mem(c, U16(p + 1))

\* memory[pc++] | (memory[pc++] << 8) in ONE expression: the two increments
\* are unsequenced, so the build decides which operand reads the first byte.
WordU(c, p, ord) ==
    IF ord = "lr" THEN Mem(c, U16(p)) + 256 * Mem(c, U16(p + 1))
    ELSE Mem(c, U16(p + 1)) + 256 * Mem(c, U16(p))

INT_MAX == 2147483647

\* The value a uint16_t holds after being assigned the int n.
Trunc16(n) == n % 65536

\* memmove(&memory[dst], &memory[src], len)
CopyMem(c, src, dst, len) ==
    LET from == {a \in DOMAIN c.memory : a >= src /\ a < src + len}
        keep == {a \in DOMAIN c.memory : ~(a >= dst /\ a < dst + len)}
        into == {a - src + dst : a \in from}
    IN [c EXCEPT !.memory = [a \in keep \cup into |->
                                IF a \in into THEN c.memory[a - dst + src] ELSE c.memory[a]]]

\* %x in place of %X.
HexDigitLower(n) == IF n < 10 THEN 48 + n ELSE 87 + n

\* The text of the default case: "Error: Unknown opcode 0x%02X\n".
HexDigit(n) == IF n < 10 THEN 48 + n ELSE 55 + n

UnknownOpcodeMsg(opcode) ==
    <<69, 114, 114, 111, 114, 58, 32, 85, 110, 107, 110, 111, 119, 110, 32,
      111, 112, 99, 111, 100, 101, 32, 48, 120,
      HexDigit(opcode \div 16), HexDigit(opcode % 16), NL>>

\* The PRINT_STR loop: bytes up to the NUL go to the screen, pc stops on the NUL.
RECURSIVE PrintStrLoop(_, _)
PrintStrLoop(c, s) ==
    IF c.pc < MEM_SIZE /\ Mem(c, c.pc) # 0
    THEN LET t == putchar_screen(s, Mem(c, c.pc))
         IN IF t.dirty THEN PrintStrLoop([c EXCEPT !.pc = U16(c.pc + 1)], t)
            ELSE [cpu |-> c, screen |-> t]
    ELSE [cpu |-> c, screen |-> s]

\* The address of stack slot sp: MEM_SIZE - STACK_SIZE + cpu.sp.
StackAt(sp) == MEM_SIZE - STACK_SIZE + sp

\* Two bytes pushed: low byte at sp, high byte at sp - 1, sp down by two.
\* src is the register pushed, 8 for pc; it and sp are read again for the
\* second byte.
PushWord(c, src) ==
    LET val(d) == IF src = 8 THEN d.pc ELSE d.regs[src]
        c1 == Store(c, StackAt(c.sp), val(c) % 256)
        c2 == [c1 EXCEPT !.sp = U16(@ - 1)]
        c3 == Store(c2, StackAt(c2.sp), (val(c2) \div 256) % 256)
    IN [c3 EXCEPT !.sp = U16(@ - 1)]

\* Two bytes popped: sp up by one, low byte, sp up by one, high byte.
PopWord(c) ==
    LET sp1 == U16(c.sp + 1)
        sp2 == U16(sp1 + 1)
    IN [value |-> Mem(c, StackAt(sp1)) + 256 * Mem(c, StackAt(sp2)),
        cpu |-> [c EXCEPT !.sp = sp2, !.ub = @ \/ StackAt(sp2) >= MEM_SIZE]]

\* The case labels of the switch in execute_instruction.
Opcodes ==
    {OP_HALT, OP_PRINT_CHAR, OP_PRINT_STR, OP_CLEAR_SCREEN, OP_SET_COLOR, OP_GET_CURSOR,
     OP_SET_CURSOR, OP_DRAW_LINE, OP_DRAW_RECT, OP_FILL_RECT, OP_DRAW_CIRCLE, OP_SLEEP_MS,
     OP_BEEP, OP_GET_TIME, OP_RANDOM, OP_SET_PIXEL, OP_CLEAR_PIXELS, OP_LOAD_REG,
     OP_STORE_REG, OP_PUSH, OP_POP, OP_ADD, OP_SUB, OP_MUL, OP_DIV, OP_MOD, OP_AND, OP_OR,
     OP_XOR, OP_NOT, OP_SHL, OP_SHR, OP_CMP, OP_JMP, OP_JZ, OP_JNZ, OP_JG, OP_JL, OP_CALL,
     OP_RET, OP_READ_CHAR, OP_LOAD_MEM, OP_STORE_MEM, OP_COPY_MEM}

\* The int product of a and b is more than INT_MAX.
MulOverflows(a, b) == a # 0 /\ b > INT_MAX \div a

\* The result of a three-register arithmetic opcode on uint16_t a and b, which
\* C promotes to int; nd.val is what an undefined int overflow leaves.
Arith(opcode, a, b, nd) ==
    CASE opcode = OP_ADD -> Trunc16(a + b)
      [] opcode = OP_SUB -> Trunc16(a - b)
      [] opcode = OP_MUL -> IF MulOverflows(a, b) THEN nd.val ELSE Trunc16(a * b)
      [] opcode = OP_DIV -> a \div b
      [] opcode = OP_MOD -> a % b
      [] opcode = OP_AND -> BitAnd(a, b)
      [] opcode = OP_OR -> BitOr(a, b)
      [] opcode = OP_XOR -> BitXor(a, b)

\* regs[dst] << regs[src] and regs[dst] >> regs[src], computed in int.
Shift(opcode, v, n, nd) ==
    IF n >= 32 THEN nd.val
    ELSE IF opcode = OP_SHR THEN (IF n >= 16 THEN 0 ELSE v \div Pow2(n))
    ELSE IF v = 0 THEN 0
    ELSE IF n >= 31 \/ v > INT_MAX \div Pow2(n) THEN nd.val
    ELSE Trunc16(v * Pow2(n))

\* The comparison made on int16_t values.
CmpFlagsSigned(x, y) ==
    LET sx == IF x >= 32768 THEN x - 65536 ELSE x
        sy == IF y >= 32768 THEN y - 65536 ELSE y
    IN (IF sx = sy THEN 1 ELSE 0) + (IF sx > sy THEN 2 ELSE 0) + (IF sx < sy THEN 4 ELSE 0)

\* flags = 0, then |= 0x01 if equal, |= 0x02 if greater, |= 0x04 if less, on
\* two uint16_t registers.
CmpFlags(x, y) ==
    (IF x = y THEN 1 ELSE 0) + (IF x > y THEN 2 ELSE 0) + (IF x < y THEN 4 ELSE 0)

\* JNZ and JZ exchanged.
JumpTakenSwapped(opcode, flags) ==
    CASE opcode = OP_JMP -> TRUE
      [] opcode = OP_JZ -> flags % 2 = 0
      [] opcode = OP_JNZ -> flags % 2 = 1
      [] opcode = OP_JG -> (flags \div 2) % 2 = 1
      [] opcode = OP_JL -> (flags \div 4) % 2 = 1

\* A clear that only scrolls the text up by one row.
OpClearScreenScroll(s) == ScrollUp(s)

\* case OP_CLEAR_SCREEN: clear_screen_display() on the screen s.
OpClearScreen(s) == clear_screen_display

\* The flag bit that lets a conditional jump go.
JumpTaken(opcode, flags) ==
    CASE opcode = OP_JMP -> TRUE
      [] opcode = OP_JZ -> flags % 2 = 1
      [] opcode = OP_JNZ -> flags % 2 = 0
      [] opcode = OP_JG -> (flags \div 2) % 2 = 1
      [] opcode = OP_JL -> (flags \div 4) % 2 = 1

(***************************************************************************)
(* execute_instruction: one instruction at cpu.pc.  c0 is the CPU, s the    *)
(* screen, nd the choices the instruction leaves open: nd.ord the order of  *)
(* unsequenced operand reads, nd.val the value of time(), rand() or of an   *)
(* undefined int result.  The result is the CPU and the screen afterwards.  *)
(* READ_CHAR with a valid register waits for the keyboard: here it only     *)
(* consumes its operand, the wait is in the actions ReadChar* below.        *)
(***************************************************************************)
execute_instruction(c0, s, nd) ==
    IF c0.pc >= MEM_SIZE THEN [cpu |-> [c0 EXCEPT !.running = FALSE], screen |-> s]
    ELSE
    LET opcode == Mem(c0, c0.pc)
        c == [c0 EXCEPT !.pc = U16(c0.pc + 1)]
        p == c.pc
        b(i) == Mem(c, U16(p + i))
        adv(k) == [c EXCEPT !.pc = U16(p + k)]
        R(cc, ss) == [cpu |-> cc, screen |-> ss]
        SetReg(cc, r, v) == [cc EXCEPT !.regs[r] = v]
        W(i) == WordU(c, p + i, nd.ord)
    IN
    CASE opcode = OP_HALT -> R([c EXCEPT !.running = FALSE], s)
      [] opcode = OP_PRINT_CHAR ->
            IF p < MEM_SIZE THEN R(adv(1), putchar_screen(s, b(0))) ELSE R(c, s)
      [] opcode = OP_PRINT_STR ->
            LET r == PrintStrLoop(c, s)
            IN R([r.cpu EXCEPT !.pc = U16(@ + 1)], r.screen)
      [] opcode = OP_CLEAR_SCREEN -> R(c, OpClearScreen(s))
      [] opcode = OP_SET_COLOR ->
            IF p < MEM_SIZE
            THEN R(adv(1), IF b(0) < 16 THEN [s EXCEPT !.current_color = b(0)] ELSE s)
            ELSE R(c, s)
      [] opcode = OP_GET_CURSOR ->
            IF p + 1 < MEM_SIZE
            THEN LET c1 == IF b(0) < 8 THEN SetReg(adv(2), b(0), Trunc16(s.cursor_x))
                           ELSE adv(2)
                 IN R(IF b(1) < 8 THEN SetReg(c1, b(1), Trunc16(s.cursor_y)) ELSE c1, s)
            ELSE R(c, s)
      [] opcode = OP_SET_CURSOR ->
            IF p + 1 < MEM_SIZE
            THEN R(adv(2),
                   [s EXCEPT !.cursor_x = IF b(0) < SCREEN_WIDTH THEN b(0) ELSE @,
                             !.cursor_y = IF b(1) < SCREEN_HEIGHT THEN b(1) ELSE @,
                             !.dirty = TRUE])
            ELSE R(c, s)
      [] opcode = OP_DRAW_LINE ->
            IF p + 7 < MEM_SIZE
            THEN R(adv(8), [draw_line(s, W(0), W(2), W(4), W(6)) EXCEPT !.pixel_mode = TRUE])
            ELSE R(c, s)
      [] opcode = OP_DRAW_RECT ->
            IF p + 7 < MEM_SIZE
            THEN R(adv(8), [draw_rect(s, W(0), W(2), W(4), W(6)) EXCEPT !.pixel_mode = TRUE])
            ELSE R(c, s)
      [] opcode = OP_FILL_RECT ->
            IF p + 7 < MEM_SIZE
            THEN R(adv(8), [fill_rect(s, W(0), W(2), W(4), W(6)) EXCEPT !.pixel_mode = TRUE])
            ELSE R(c, s)
      [] opcode = OP_DRAW_CIRCLE ->
            IF p + 5 < MEM_SIZE
            THEN R(adv(6), [draw_circle(s, W(0), W(2), W(4)) EXCEPT !.pixel_mode = TRUE])
            ELSE R(c, s)
      [] opcode = OP_SLEEP_MS -> IF p + 1 < MEM_SIZE THEN R(adv(2), s) ELSE R(c, s)
      [] opcode = OP_BEEP -> IF p + 3 < MEM_SIZE THEN R(adv(4), s) ELSE R(c, s)
      [] opcode = OP_GET_TIME ->
            IF p < MEM_SIZE
            THEN R(IF b(0) < 8 THEN SetReg(adv(1), b(0), nd.val) ELSE adv(1), s)
            ELSE R(c, s)
      [] opcode = OP_RANDOM ->
            IF p + 1 < MEM_SIZE
            THEN R(IF b(0) < 8 THEN SetReg(adv(3), b(0), Trunc16(nd.val % (W(1) + 1)))
                   ELSE adv(3), s)
            ELSE R(c, s)
      [] opcode = OP_SET_PIXEL ->
            IF p + 2 < MEM_SIZE
            THEN R(adv(5), [set_pixel(s, Word(c, p), Word(c, p + 2), b(4))
                               EXCEPT !.pixel_mode = TRUE])
            ELSE R(c, s)
      [] opcode = OP_CLEAR_PIXELS -> R(c, [clear_pixels(s) EXCEPT !.pixel_mode = FALSE])
      [] opcode = OP_LOAD_REG ->
            IF p + 2 < MEM_SIZE
            THEN R(IF b(0) < 8 THEN SetReg(adv(3), b(0), Word(c, p + 1)) ELSE adv(3), s)
            ELSE R(c, s)
      [] opcode = OP_STORE_REG ->
            IF p < MEM_SIZE
            THEN LET reg == b(0)
                     q == U16(p + 1)
                     addr == Word(c, q)
                     c2 == [c EXCEPT !.pc = U16(q + 2)]
                 IN IF reg < 8 /\ q + 1 < MEM_SIZE
                    THEN IF addr + 1 < MEM_SIZE
                         THEN R(Store(Store(c2, addr, c.regs[reg] % 256),
                                      addr + 1, (c.regs[reg] \div 256) % 256), s)
                         ELSE R(c2, s)
                    ELSE R(adv(1), s)
            ELSE R(c, s)
      [] opcode = OP_PUSH ->
            IF p < MEM_SIZE
            THEN IF b(0) < 8 /\ c.sp > 0
                 THEN R(PushWord(adv(1), b(0)), s)
                 ELSE R(adv(1), s)
            ELSE R(c, s)
      [] opcode = OP_POP ->
            IF p < MEM_SIZE
            THEN IF b(0) < 8 /\ c.sp < STACK_SIZE - 1
                 THEN LET r == PopWord(adv(1)) IN R(SetReg(r.cpu, b(0), r.value), s)
                 ELSE R(adv(1), s)
            ELSE R(c, s)
      [] opcode \in {OP_ADD, OP_SUB, OP_MUL, OP_AND, OP_OR, OP_XOR} ->
            IF p + 2 < MEM_SIZE
            THEN IF b(0) < 8 /\ b(1) < 8 /\ b(2) < 8
                 THEN R(SetReg(adv(3), b(0), Arith(opcode, c.regs[b(1)], c.regs[b(2)], nd)), s)
                 ELSE R(adv(3), s)
            ELSE R(c, s)
      [] opcode \in {OP_DIV, OP_MOD} ->
            IF p + 2 < MEM_SIZE
            THEN IF b(0) < 8 /\ b(1) < 8 /\ b(2) < 8 /\ c.regs[b(2)] # 0
                 THEN R(SetReg(adv(3), b(0), Arith(opcode, c.regs[b(1)], c.regs[b(2)], nd)), s)
                 ELSE R(adv(3), s)
            ELSE R(c, s)
      [] opcode = OP_NOT ->
            IF p + 1 < MEM_SIZE
            THEN IF b(0) < 8 /\ b(1) < 8
                 THEN R(SetReg(adv(2), b(0), 65535 - c.regs[b(1)]), s)
                 ELSE R(adv(2), s)
            ELSE R(c, s)
      [] opcode \in {OP_SHL, OP_SHR} ->
            IF p + 1 < MEM_SIZE
            THEN IF b(0) < 8 /\ b(1) < 8
                 THEN R(SetReg(adv(2), b(0), Shift(opcode, c.regs[b(0)], c.regs[b(1)], nd)), s)
                 ELSE R(adv(2), s)
            ELSE R(c, s)
      [] opcode = OP_CMP ->
            IF p + 1 < MEM_SIZE
            THEN IF b(0) < 8 /\ b(1) < 8
                 THEN LET x == c.regs[b(0)]
                          y == c.regs[b(1)]
                      IN R([adv(2) EXCEPT !.flags = CmpFlags(x, y)], s)
                 ELSE R(adv(2), s)
            ELSE R(c, s)
      [] opcode \in {OP_JMP, OP_JZ, OP_JNZ, OP_JG, OP_JL} ->
            IF p + 1 < MEM_SIZE
            THEN LET addr == Word(c, p)
                 IN IF JumpTaken(opcode, c.flags) /\ addr < MEM_SIZE
                    THEN R([c EXCEPT !.pc = addr], s)
                    ELSE R(adv(2), s)
            ELSE R(c, s)
      [] opcode = OP_CALL ->
            IF p + 1 < MEM_SIZE /\ c.sp > 1
            THEN LET addr == Word(c, p)
                     c2 == PushWord(adv(2), 8)
                 IN R(IF addr < MEM_SIZE THEN [c2 EXCEPT !.pc = addr] ELSE c2, s)
            ELSE R(c, s)
      [] opcode = OP_RET ->
            IF c.sp < STACK_SIZE - 1
            THEN LET r == PopWord(c)
                 IN R(IF r.value < MEM_SIZE THEN [r.cpu EXCEPT !.pc = r.value] ELSE r.cpu, s)
            ELSE R(c, s)
      [] opcode = OP_READ_CHAR -> IF p < MEM_SIZE THEN R(adv(1), s) ELSE R(c, s)
      [] opcode = OP_LOAD_MEM ->
            IF p + 2 < MEM_SIZE
            THEN LET addr == Word(c, p + 1)
                 IN IF b(0) < 8 /\ addr + 1 < MEM_SIZE
                    THEN R(SetReg(adv(3), b(0), Mem(c, addr) + 256 * Mem(c, addr + 1)), s)
                    ELSE R(adv(3), s)
            ELSE R(c, s)
      [] opcode = OP_STORE_MEM ->
            IF p + 2 < MEM_SIZE
            THEN LET addr == Word(c, p)
                     reg == b(2)
                 IN IF reg < 8 /\ addr + 1 < MEM_SIZE
                    THEN R(Store(Store(adv(3), addr, c.regs[reg] % 256),
                                 addr + 1, (c.regs[reg] \div 256) % 256), s)
                    ELSE R(adv(3), s)
            ELSE R(c, s)
      [] opcode = OP_COPY_MEM ->
            IF p + 5 < MEM_SIZE
            THEN IF W(0) + W(4) < MEM_SIZE /\ W(2) + W(4) < MEM_SIZE
                 THEN R(CopyMem(adv(6), W(0), W(2), W(4)), s)
                 ELSE R(adv(6), s)
            ELSE R(c, s)
      [] OTHER ->
            R([c EXCEPT !.running = FALSE], print_to_screen(s, UnknownOpcodeMsg(opcode)))

\* The operand bytes each opcode consumes when nothing is out of range
\* (PRINT_STR, whose operand is a string, is not in the table).
OperandBytes(opcode) ==
    CASE opcode \in {OP_HALT, OP_CLEAR_SCREEN, OP_CLEAR_PIXELS, OP_RET} -> 0
      [] opcode \in {OP_PRINT_CHAR, OP_SET_COLOR, OP_GET_TIME, OP_PUSH, OP_POP,
                     OP_READ_CHAR} -> 1
      [] opcode \in {OP_GET_CURSOR, OP_SET_CURSOR, OP_SLEEP_MS, OP_NOT, OP_SHL, OP_SHR,
                     OP_CMP, OP_JMP, OP_JZ, OP_JNZ, OP_JG, OP_JL, OP_CALL} -> 2
      [] opcode \in {OP_RANDOM, OP_LOAD_REG, OP_STORE_REG, OP_ADD, OP_SUB, OP_MUL, OP_DIV,
                     OP_MOD, OP_AND, OP_OR, OP_XOR, OP_LOAD_MEM, OP_STORE_MEM} -> 3
      [] opcode = OP_BEEP -> 4
      [] opcode = OP_SET_PIXEL -> 5
      [] opcode \in {OP_DRAW_CIRCLE, OP_COPY_MEM} -> 6
      [] opcode \in {OP_DRAW_LINE, OP_DRAW_RECT, OP_FILL_RECT} -> 8

\* The opcode at pc, and whether the instruction there is a READ_CHAR that
\* will wait for a key (OP_READ_CHAR with a register below 8).
OpcodeAt(c) == Mem(c, c.pc)

\* The operand bytes the instruction's case uses as register indices (the
\* ones it tests with < 8), counted from the byte after the opcode.
RegOperands(opcode) ==
    CASE opcode \in {OP_GET_TIME, OP_RANDOM, OP_LOAD_REG, OP_STORE_REG, OP_PUSH, OP_POP,
                     OP_READ_CHAR, OP_LOAD_MEM} -> {0}
      [] opcode \in {OP_GET_CURSOR, OP_NOT, OP_SHL, OP_SHR, OP_CMP} -> {0, 1}
      [] opcode \in {OP_ADD, OP_SUB, OP_MUL, OP_DIV, OP_MOD, OP_AND, OP_OR, OP_XOR} -> {0, 1, 2}
      [] opcode = OP_STORE_MEM -> {2}
      [] OTHER -> {}

\* All operand bytes of the instruction at c.pc lie inside memory.
Complete(c) ==
    /\ OpcodeAt(c) \in Opcodes \ {OP_PRINT_STR}
    /\ c.pc + OperandBytes(OpcodeAt(c)) < MEM_SIZE

\* The instruction at c.pc names a register above 7.
BadReg(c) ==
    /\ Complete(c)
    /\ \E i \in RegOperands(OpcodeAt(c)) : Mem(c, c.pc + 1 + i) >= 8

\* The instruction at c.pc names an address the code refuses: a 16-bit store
\* or load at the last byte of memory, a copy that would run past the end.
BadAddr(c) ==
    /\ Complete(c)
    /\ \/ OpcodeAt(c) \in {OP_STORE_REG, OP_LOAD_MEM} /\ Word(c, c.pc + 2) + 1 >= MEM_SIZE
       \/ OpcodeAt(c) = OP_STORE_MEM /\ Word(c, c.pc + 1) + 1 >= MEM_SIZE
       \/ /\ OpcodeAt(c) = OP_COPY_MEM
          /\ \/ Word(c, c.pc + 1) + Word(c, c.pc + 5) >= MEM_SIZE
             \/ Word(c, c.pc + 3) + Word(c, c.pc + 5) >= MEM_SIZE

\* The instruction at c.pc divides by a register that holds 0.
DivByZero(c) ==
    /\ Complete(c)
    /\ OpcodeAt(c) \in {OP_DIV, OP_MOD}
    /\ ~BadReg(c)
    /\ c.regs[Mem(c, c.pc + 3)] = 0

\* The instruction at c.pc is a PUSH that pushes: register below 8, sp > 1.
Pushes(c) ==
    /\ OpcodeAt(c) = OP_PUSH
    /\ Complete(c)
    /\ ~BadReg(c)
    /\ c.sp > 1

WaitsForKey(c) == OpcodeAt(c) = OP_READ_CHAR /\ U16(c.pc + 1) < MEM_SIZE
                  /\ Mem(c, U16(c.pc + 1)) < 8

(***************************************************************************)
(* Bounds of the model.                                                     *)
(***************************************************************************)
\* Instructions one run executes.
MaxSteps == 300

\* What an instruction may leave open: the order of two unsequenced operand
\* reads, and the value of time(), rand() or an overflowed int.
Choices == [ord : {"lr", "rl"}, val : {0, 1, 65535}]

(***************************************************************************)
(* Program images.  An image is the bytes of a file of ./fs: a sparse       *)
(* function from offsets to the bytes that are not 0, and the file's size.  *)
(***************************************************************************)
At(a, bytes) ==
    [x \in {a + i - 1 : i \in {j \in 1 .. Len(bytes) : bytes[j] # 0}} |-> bytes[x - a + 1]]

Lo(w) == w % 256
Hi(w) == w \div 256

\* LOAD_REG 0, 0xABCD; L: PUSH 0; JMP L
ImgPushLoop ==
    [bytes |-> At(0, <<OP_LOAD_REG, 0, 205, 171, OP_PUSH, 0, OP_JMP, 4, 0>>), size |-> 9]

\* enter A (a JMP or a CALL); at A: CALL T; at T: RET.  Bytes written later
\* win where two instructions overlap.
ImgCallRet(enter, A, T) ==
    [bytes |-> At(T, <<OP_RET>>) @@ At(A, <<OP_CALL>>)
               @@ (IF A + 1 < MEM_SIZE THEN At(A + 1, <<Lo(T)>>) ELSE Empty)
               @@ (IF A + 2 < MEM_SIZE THEN At(A + 2, <<Hi(T)>>) ELSE Empty)
               @@ At(0, <<enter, Lo(A), Hi(A)>>),
     size |-> MEM_SIZE]

\* JMP A; at A an opcode op whose operands would run past the end of memory,
\* followed by the byte nxt.
ImgTrunc(A, op, nxt) ==
    [bytes |-> At(A, <<op>>) @@ (IF A + 1 < MEM_SIZE THEN At(A + 1, <<nxt>>) ELSE Empty)
               @@ At(0, <<OP_JMP, Lo(A), Hi(A)>>),
     size |-> MEM_SIZE]

\* PRINT_STR "Hi"; HALT
ImgHi == [bytes |-> At(0, <<OP_PRINT_STR, 72, 105, 0, OP_HALT>>), size |-> 5]

\* A byte that is no opcode.
ImgUnknown == [bytes |-> At(0, <<255>>), size |-> 1]

\* L: JMP L
ImgSpin == [bytes |-> At(0, <<OP_JMP, 0, 0>>), size |-> 3]

\* CLEAR_SCREEN; PRINT_STR with 80 'x'; 30 times PRINT_CHAR '\n'; HALT
ImgScroll ==
    [bytes |-> At(0, <<OP_CLEAR_SCREEN, OP_PRINT_STR>> \o [i \in 1 .. 80 |-> 120] \o <<0>>
                     \o [i \in 1 .. 60 |-> IF i % 2 = 1 THEN OP_PRINT_CHAR ELSE NL]
                     \o <<OP_HALT>>),
     size |-> 144]

\* KEY_PRESSED r0; HALT
ImgKeyPressed == [bytes |-> At(0, <<OP_KEY_PRESSED, 0, OP_HALT>>), size |-> 3]

\* DRAW_SPRITE x = 1, y = 1, w = 1, h = 1, src = 16; HALT; a sprite byte at 16
ImgSprite ==
    [bytes |-> At(0, <<OP_DRAW_SPRITE, 1, 0, 1, 0, 1, 0, 1, 0, 16, 0, OP_HALT,
                       0, 0, 0, 0, 128>>),
     size |-> 17]

\* Instructions the code ignores: DIV r0 = r1 / r2 with r2 = 0; LOAD_MEM r8;
\* STORE_MEM at 0xFFFF; ADD r8; GET_CURSOR r8, r0; STORE_REG r8, 0x0000; HALT
ImgIgnored ==
    [bytes |-> At(0, <<OP_DIV, 0, 1, 2, OP_LOAD_MEM, 8, 16, 0, OP_STORE_MEM, 255, 255, 0,
                       OP_ADD, 8, 1, 2, OP_GET_CURSOR, 8, 0, OP_STORE_REG, 8, 0, 0,
                       OP_HALT>>),
     size |-> 24]

\* LOAD_REG r0, 0xABCD; PUSH r0; POP r1; POP r2; RET; HALT
ImgPushPop ==
    [bytes |-> At(0, <<OP_LOAD_REG, 0, 205, 171, OP_PUSH, 0, OP_POP, 1, OP_POP, 2, OP_RET,
                       OP_HALT>>),
     size |-> 12]

\* L: CALL L
ImgCallLoop == [bytes |-> At(0, <<OP_CALL, 0, 0>>), size |-> 3]

\* JMP 0xFFFF; ...; at 0xFFFF: CLEAR_PIXELS.  A full-size image whose only
\* branch goes forward.
\* SET_PIXEL 2,1,1; SET_COLOR 12; CLEAR_SCREEN; HALT
ImgClear ==
    [bytes |-> At(0, <<OP_SET_PIXEL, 2, 0, 1, 0, 1, OP_SET_COLOR, 12, OP_CLEAR_SCREEN,
                       OP_HALT>>),
     size |-> 10]

\* LOAD_REG r1, 0x1234; CMP r1, r0; PUSH r1; then a byte with no case label
ImgFault(op) ==
    [bytes |-> At(0, <<OP_LOAD_REG, 1, 52, 18, OP_CMP, 1, 0, OP_PUSH, 1, op>>), size |-> 10]

\* Bytes without a case label: 0x0F, 0xAB, 0xFA.
FaultOpcodes == {15, 171, 250}

\* Operand words below are chosen so that either order of the two operand
\* reads gives a small number: bytes 1,1 are 257; bytes 1,0 are 1 or 256.
\* SET_PIXEL 2,1,255; SET_PIXEL 400,0,1; SET_PIXEL 2,200,1;
\* DRAW_LINE 257,257 to (1 or 256),257; DRAW_RECT 257,257,1,256 or 257,257,256,1;
\* FILL_RECT 257,257,1,256 or 257,257,256,1; DRAW_CIRCLE 257,514,(1 or 256); HALT
ImgOutside ==
    [bytes |-> At(0, <<OP_SET_PIXEL, 2, 0, 1, 0, 255, OP_SET_PIXEL, 144, 1, 0, 0, 1,
                       OP_SET_PIXEL, 2, 0, 200, 0, 1,
                       OP_DRAW_LINE, 1, 1, 1, 1, 1, 0, 1, 1,
                       OP_DRAW_RECT, 1, 1, 1, 1, 1, 0, 0, 1,
                       OP_FILL_RECT, 1, 1, 1, 1, 1, 0, 0, 1,
                       OP_DRAW_CIRCLE, 1, 1, 2, 2, 1, 0, OP_HALT>>),
     size |-> 53]

\* DRAW_LINE 257,0 to 257,257; DRAW_RECT 257,0,1,256 or 257,0,256,1;
\* DRAW_CIRCLE 0,0,(2 or 512); SET_PIXEL 257,0,0; HALT
ImgCross ==
    [bytes |-> At(0, <<OP_DRAW_LINE, 1, 1, 0, 0, 1, 1, 1, 1,
                       OP_DRAW_RECT, 1, 1, 0, 0, 1, 0, 0, 1,
                       OP_DRAW_CIRCLE, 0, 0, 0, 0, 2, 0,
                       OP_SET_PIXEL, 1, 1, 0, 0, 0, OP_HALT>>),
     size |-> 32]

\* PRINT_CHAR 'x'; SET_PIXEL 2,1,1; SET_COLOR 12; CLEAR_SCREEN; CLEAR_SCREEN; HALT
ImgClearTwice ==
    [bytes |-> At(0, <<OP_PRINT_CHAR, 120, OP_SET_PIXEL, 2, 0, 1, 0, 1, OP_SET_COLOR, 12,
                       OP_CLEAR_SCREEN, OP_CLEAR_SCREEN, OP_HALT>>),
     size |-> 13]

ImgWrap ==
    [bytes |-> At(0, <<OP_JMP, 255, 255>>) @@ At(MEM_SIZE - 1, <<OP_CLEAR_PIXELS>>),
     size |-> MEM_SIZE]

Images ==
    {ImgPushLoop, ImgHi, ImgUnknown, ImgSpin, ImgScroll, ImgKeyPressed, ImgSprite,
     ImgIgnored, ImgPushPop, ImgCallLoop, ImgWrap, ImgClear, ImgOutside, ImgCross, ImgClearTwice}
    \cup {ImgFault(op) : op \in FaultOpcodes}
    \cup {ImgCallRet(e, A, 102) : e \in {OP_JMP, OP_CALL}, A \in {3, 65532, 65533, 65534}}
    \cup {ImgCallRet(e, 65535, Lo(e) + 256 * 255) : e \in {OP_JMP, OP_CALL}}
    \cup {ImgTrunc(65534, OP_LOAD_REG, OP_PRINT_CHAR), ImgTrunc(65534, OP_JMP, OP_HALT),
          ImgTrunc(65535, OP_PRINT_CHAR, 0)}

(***************************************************************************)
(* The state the shell's run command leaves when it calls run_program:      *)
(* init_cpu, load_program, show_loading_animation and "Running program...". *)
(***************************************************************************)
\* The screen after show_loading_animation("p") and the "Running program..."
\* line: cleared, text mode, three lines of text, colour back to white.
ScreenAtRun ==
    LET s0 == clear_screen_display
        s1 == print_to_screen([s0 EXCEPT !.current_color = 11],
                              <<10, 32, 32, 32, 32, 76, 111, 97, 100, 105, 110, 103, 58, 32>>)
        s2 == print_to_screen([s1 EXCEPT !.current_color = 14], <<112>>)
        s3 == print_to_screen([s2 EXCEPT !.current_color = 10], <<32, 91, 79, 75, 93, 10>>)
        s4 == [s3 EXCEPT !.current_color = COLOR_WHITE, !.dirty = TRUE]
    IN print_to_screen(s4, <<82, 117, 110, 110, 105, 110, 103, 32, 112, 114, 111, 103,
                             114, 97, 109, 46, 46, 46, 10>>)

\* The keyboard buffer after read_line_from_screen returned "run p".
InputAtRun ==
    [buffer |-> At(0, <<114, 117, 110, 32, 112>>), pos |-> 0, ready |-> FALSE,
     last_char |-> NL, char_ready |-> TRUE, mutex |-> "free"]

\* The history variable: what the properties below need to remember.
\*   steps        instructions executed by this run
\*   last         the instruction executed last: its address, opcode, the sp
\*                it started with, whether it left the screen untouched
\*                (quiet); for a RET, call_at is the address of the CALL it
\*                answers (the pending CALL, if sp is back where that CALL
\*                left it), else -1
\*                answers (see call); before is the CPU as the instruction
\*                found it; push is the PUSH executed just before it (see
\*                push)
\*   push         the value and the sp of the instruction executed last if it
\*                was a PUSH that pushed, else -1
\*   call         the pending CALL, one executed with sp > 1 and not yet
\*                answered by a RET: its address and the sp it left
\*   after_close  instructions started after window_running became false
\*   keys         key events delivered so far
\*   lines        read_line_from_screen calls completed so far
\*   typed        the printable keys typed, net of backspaces, since the
\*                current read_line call reset the buffer and until Enter
\*   entered      Enter was pressed since that reset
\*   runs         run commands executed so far
\*   residue      cpu.memory as the run before the current one left it
\*   size         the length of the image the current run loaded
\*   image        the file a second run was given
\*   prog         the parameters the program of SpecAlu was built from
\*   at_copy      typed and entered as they were when read_line_from_screen
\*                last copied the buffer
\*   sig          the code the key handler signalled last (char_ready set):
\*                '\n' for Enter, the key itself for a printable key that
\*                found room, -1 before the first; since: one was signalled
\*                since the READ_CHAR executed last began
HistInit ==
    [steps |-> 0,
     last |-> [at |-> -1, op |-> -1, sp |-> -1, quiet |-> TRUE, call_at |-> -1,
               before |-> init_cpu, push |-> [val |-> -1, sp |-> -1]],
     call |-> [at |-> -1, sp |-> -1],
     push |-> [val |-> -1, sp |-> -1],
     after_close |-> 0,
     keys |-> 0, lines |-> 0, typed |-> <<>>, entered |-> FALSE,
     at_copy |-> [typed |-> <<>>, entered |-> FALSE],
     runs |-> 1, residue |-> Empty, size |-> 0, image |-> [bytes |-> Empty, size |-> 0],
     prog |-> [kind |-> "none"],
     sig |-> [code |-> -1, since |-> FALSE]]

MainAtRun == [pc |-> "run", reg |-> 0, line_buf |-> <<>>]

WinIdle == [pc |-> "events", key |-> 0, frame |-> <<>>]

Init ==
    /\ \E img \in Images : cpu = load_program(init_cpu, img.bytes, img.size)
    /\ screen = ScreenAtRun
    /\ input_buf = InputAtRun
    /\ window_running = TRUE
    /\ main = MainAtRun
    /\ win = WinIdle
    /\ fs = FsAtBoot
    /\ hist = HistInit

(***************************************************************************)
(* run_program: while (cpu.running && cpu.pc < MEM_SIZE) execute_instruction*)
(***************************************************************************)
\* One iteration of the loop.  A stray store (cpu.ub) lands outside the CPU
\* structure: the process may go on or die.
ExecuteWithin(budget) ==
    /\ main.pc = "run"
    /\ cpu.running /\ cpu.pc < MEM_SIZE
    /\ ~WaitsForKey(cpu)
    /\ hist.steps < budget
    /\ \E nd \in Choices :
          LET r == execute_instruction(cpu, screen, nd)
          IN /\ cpu' = r.cpu
             /\ screen' = r.screen
             /\ \/ main' = main
                \/ r.cpu.ub /\ main' = [main EXCEPT !.pc = "crashed"]
             /\ hist' = [hist EXCEPT
                   !.steps = @ + 1,
                   !.last = [at |-> cpu.pc, op |-> OpcodeAt(cpu), sp |-> cpu.sp,
                             quiet |-> r.screen = screen,
                             call_at |-> IF OpcodeAt(cpu) = OP_RET /\ cpu.sp = hist.call.sp
                                         THEN hist.call.at ELSE -1,
                             before |-> cpu, push |-> hist.push],
                   !.push = IF Pushes(cpu)
                            THEN [val |-> cpu.regs[Mem(cpu, U16(cpu.pc + 1))], sp |-> cpu.sp]
                            ELSE [val |-> -1, sp |-> -1],
                   !.call = IF OpcodeAt(cpu) = OP_CALL /\ cpu.sp > 1
                            THEN [at |-> cpu.pc, sp |-> r.cpu.sp]
                            ELSE IF OpcodeAt(cpu) = OP_RET THEN [at |-> -1, sp |-> -1]
                            ELSE @,
                   !.after_close = IF window_running THEN @
                                   ELSE IF @ < 2 THEN @ + 1 ELSE @]
    /\ UNCHANGED <<input_buf, window_running, win, fs>>

ExecuteInstruction == ExecuteWithin(MaxSteps)

\* The loop condition fails: run_program returns.
RunExit ==
    /\ main.pc = "run"
    /\ ~(cpu.running /\ cpu.pc < MEM_SIZE)
    /\ main' = [main EXCEPT !.pc = "done"]
    /\ UNCHANGED <<cpu, screen, input_buf, window_running, win, hist, fs>>

(***************************************************************************)
(* window_thread.                                                           *)
(***************************************************************************)
\* DestroyNotify: the window was closed.
WinDestroy ==
    /\ win.pc = "events"
    /\ window_running
    /\ window_running' = FALSE
    /\ UNCHANGED <<cpu, screen, input_buf, main, win, hist, fs>>

\* run commands in one behaviour.
MaxRuns == 2

\* A file one byte longer than memory, and one that fills it.
ImgTooLarge == [bytes |-> At(0, <<OP_PRINT_CHAR, 33, OP_HALT>>), size |-> MEM_SIZE + 1]
ImgFull == [bytes |-> At(0, <<OP_HALT>>) @@ At(MEM_SIZE - 1, <<7>>), size |-> MEM_SIZE]

\* The programs run second.
SecondImages == {ImgHi, ImgUnknown, ImgTooLarge, ImgFull}

\* The echo of a printable key: the cell under the cursor, cursor_x, dirty.
KeyEcho(s, c) ==
    IF s.cursor_x < SCREEN_WIDTH
    THEN [s EXCEPT !.chars = Put(s.chars, <<s.cursor_y, s.cursor_x>>, c, SPACE),
                   !.cursor_x = s.cursor_x + 1,
                   !.dirty = TRUE]
    ELSE s

print_prompt(s) ==
    [print_to_screen([s EXCEPT !.current_color = COLOR_BRIGHT_GREEN], <<36, 32>>)
        EXCEPT !.current_color = COLOR_WHITE]

\* The screen when the shell has prompted, the keys "run p" were echoed and
\* read_line_from_screen has returned.
ScreenAtCommand(s) ==
    LET e1 == KeyEcho(print_prompt(s), 114)
        e2 == KeyEcho(e1, 117)
        e3 == KeyEcho(e2, 110)
        e4 == KeyEcho(e3, SPACE)
        e5 == KeyEcho(e4, 112)
    IN putchar_screen(e5, NL)

\* load_program's test of the file's size.
TooLarge(size) == size > MEM_SIZE

\* The run command has finished (run_program has returned and "Program
\* terminated." is to be printed, or load_program had failed): the shell
\* prompts, reads "run p" again and runs the file, which now holds another
\* program: init_cpu, load_program, then show_loading_animation, "Running
\* program...", run_program, or, load_program having failed, its message
\* "Error: Program too large" and "Error: Could not load program".
RunAgain ==
    /\ main.pc \in {"done", "failed"}
    /\ window_running
    /\ hist.runs < MaxRuns
    /\ \E img \in SecondImages :
          /\ cpu' = load_program(init_cpu, img.bytes, img.size)
          /\ hist' = [hist EXCEPT !.runs = @ + 1, !.residue = cpu.memory, !.size = img.size,
                                  !.image = img,
                                  !.last = HistInit.last, !.push = HistInit.push,
                                  !.call = HistInit.call]
          /\ IF TooLarge(img.size)
             THEN LET s0 == IF main.pc = "done"
                            THEN print_to_screen(screen,
                                    <<80, 114, 111, 103, 114, 97, 109, 32, 116, 101, 114, 109, 105, 110, 97,
                                    116, 101, 100, 46, 10>>)
                            ELSE screen
                      s1 == print_to_screen(ScreenAtCommand(s0),
                               <<69, 114, 114, 111, 114, 58, 32, 80, 114, 111, 103, 114, 97, 109, 32,
                               116, 111, 111, 32, 108, 97, 114, 103, 101, 10>>)
                  IN /\ screen' = print_to_screen(s1,
                                     <<69, 114, 114, 111, 114, 58, 32, 67, 111, 117, 108, 100, 32, 110, 111,
                                     116, 32, 108, 111, 97, 100, 32, 112, 114, 111, 103, 114, 97, 109, 10>>)
                     /\ main' = [MainAtRun EXCEPT !.pc = "failed"]
             ELSE /\ screen' = ScreenAtRun
                  /\ main' = MainAtRun
    /\ input_buf' = InputAtRun
    /\ UNCHANGED <<window_running, win, fs>>

Next == ExecuteInstruction \/ RunExit \/ WinDestroy \/ RunAgain

Spec == Init /\ [][Next]_vars

(***************************************************************************)
(* The keyboard: the KeyPress branch of window_thread's event loop.         *)
(***************************************************************************)
Printable == 32 .. 126


\* The screen part of a backspace that removed a character.
KeyRubout(s) ==
    LET x == IF s.cursor_x > 0 THEN s.cursor_x - 1 ELSE s.cursor_x
    IN [s EXCEPT !.cursor_x = x,
                 !.chars = Put(s.chars, <<s.cursor_y, x>>, SPACE, SPACE),
                 !.dirty = TRUE]

\* KeyPress with the printable branch testing pos < INPUT_BUFFER_SIZE.
KeyPressToTheBrim(ib, s, k) ==
    IF k = XK_Return
    THEN [input_buf |-> [ib EXCEPT !.buffer = Put(ib.buffer, ib.pos, 0, 0),
                                   !.ready = TRUE, !.last_char = NL, !.char_ready = TRUE],
          screen |-> s]
    ELSE IF k = XK_BackSpace
    THEN IF ib.pos > 0
         THEN [input_buf |-> [ib EXCEPT !.pos = ib.pos - 1], screen |-> KeyRubout(s)]
         ELSE [input_buf |-> ib, screen |-> s]
    ELSE IF k >= 32 /\ k < 127
    THEN IF ib.pos < INPUT_BUFFER_SIZE
         THEN [input_buf |-> [ib EXCEPT !.buffer = Put(ib.buffer, ib.pos, k, 0),
                                        !.pos = ib.pos + 1,
                                        !.last_char = k, !.char_ready = TRUE],
               screen |-> KeyEcho(s, k)]
         ELSE [input_buf |-> ib, screen |-> s]
    ELSE [input_buf |-> ib, screen |-> s]

\* The body of the KeyPress branch between lock and unlock: ib is the
\* keyboard buffer, s the screen, k the key (a keysym or a character code).
KeyPress(ib, s, k) ==
    IF k = XK_Return
    THEN [input_buf |-> [ib EXCEPT !.buffer = Put(ib.buffer, ib.pos, 0, 0),
                                   !.ready = TRUE, !.last_char = NL, !.char_ready = TRUE],
          screen |-> s]
    ELSE IF k = XK_BackSpace
    THEN IF ib.pos > 0
         THEN [input_buf |-> [ib EXCEPT !.pos = ib.pos - 1], screen |-> KeyRubout(s)]
         ELSE [input_buf |-> ib, screen |-> s]
    ELSE IF k >= 32 /\ k < 127
    THEN IF ib.pos < INPUT_BUFFER_SIZE - 1
         THEN [input_buf |-> [ib EXCEPT !.buffer = Put(ib.buffer, ib.pos, k, 0),
                                        !.pos = ib.pos + 1,
                                        !.last_char = k, !.char_ready = TRUE],
               screen |-> KeyEcho(s, k)]
         ELSE [input_buf |-> ib, screen |-> s]
    ELSE [input_buf |-> ib, screen |-> s]

\* What typing k does to the line being typed (hist.typed, hist.entered).
Typed(h, k) ==
    IF h.entered THEN h
    ELSE IF k = XK_Return THEN [h EXCEPT !.entered = TRUE]
    ELSE IF k = XK_BackSpace
         THEN [h EXCEPT !.typed = IF @ = <<>> THEN @ ELSE SubSeq(@, 1, Len(@) - 1)]
    ELSE IF k \in Printable THEN [h EXCEPT !.typed = Append(@, k)]
    ELSE h

\* What handling k does to hist.sig: Enter signals '\n', a printable key that
\* finds room in the line signals itself, any other key signals nothing.
Signalled(g, ib, k) ==
    IF k = XK_Return THEN [code |-> NL, since |-> TRUE]
    ELSE IF k \in Printable /\ ib.pos < INPUT_BUFFER_SIZE - 1 THEN [code |-> k, since |-> TRUE]
    ELSE g

\* A KeyPress event is taken from the queue and the mutex locked.
KeyLock(keys, budget) ==
    /\ win.pc = "events"
    /\ hist.keys < budget
    /\ input_buf.mutex = "free"
    /\ \E k \in keys :
          /\ win' = [win EXCEPT !.pc = "key", !.key = k]
          /\ hist' = [Typed(hist, k) EXCEPT !.keys = @ + 1]
    /\ input_buf' = [input_buf EXCEPT !.mutex = "win"]
    /\ UNCHANGED <<cpu, screen, window_running, main, fs>>

\* The branch for the key runs and the mutex is released.
KeyHandle ==
    /\ win.pc = "key"
    /\ LET r == KeyPress(input_buf, screen, win.key)
       IN /\ input_buf' = [r.input_buf EXCEPT !.mutex = "free"]
          /\ screen' = r.screen
    /\ win' = [win EXCEPT !.pc = "events"]
    /\ hist' = [hist EXCEPT !.sig = Signalled(@, input_buf, win.key)]
    /\ UNCHANGED <<cpu, window_running, main, fs>>

(***************************************************************************)
(* The rest of window_thread's loop:                                        *)
(*   while (window_running) { drain events; if (dirty) repaint; sleep }     *)
(***************************************************************************)
\* What a repaint draws.  Text mode: every glyph that is not a space, in its
\* colour, the cursor cell showing '_'.  Pixel mode: the lit pixels.
Frame(s) ==
    IF s.pixel_mode
    THEN [mode |-> "pixels", lit |-> {p \in DOMAIN s.pixels : s.pixels[p] # 0}, cells |-> Empty]
    ELSE LET cur == <<s.cursor_y, s.cursor_x>>
             shown == DOMAIN s.chars
                      \cup (IF s.cursor_visible /\ s.cursor_x < SCREEN_WIDTH
                               /\ s.cursor_y < SCREEN_HEIGHT THEN {cur} ELSE {})
         IN [mode |-> "text", lit |-> {},
             cells |-> [p \in shown |->
                          <<IF p = cur /\ s.cursor_visible THEN 95 ELSE s.chars[p],
                            Get(s.colors, p, COLOR_WHITE)>>]]

\* The loop condition.
WinLoop ==
    /\ win.pc = "loop"
    /\ win' = [win EXCEPT !.pc = IF window_running THEN "events" ELSE "closed"]
    /\ UNCHANGED <<cpu, screen, input_buf, window_running, main, hist, fs>>

\* Expose: the window needs redrawing.
WinExpose ==
    /\ win.pc = "events"
    /\ ~screen.dirty
    /\ screen' = [screen EXCEPT !.dirty = TRUE]
    /\ UNCHANGED <<cpu, input_buf, window_running, main, win, hist, fs>>

\* No event is pending and the screen is dirty: it is drawn.
Repaint ==
    /\ win.pc = "events"
    /\ screen.dirty
    /\ win' = [win EXCEPT !.pc = "painted", !.frame = Frame(screen)]
    /\ UNCHANGED <<cpu, screen, input_buf, window_running, main, hist, fs>>

\* XFlush; screen.dirty = 0; sleep.
RepaintDone ==
    /\ win.pc = "painted"
    /\ screen' = [screen EXCEPT !.dirty = FALSE]
    /\ win' = [win EXCEPT !.pc = "loop"]
    /\ UNCHANGED <<cpu, input_buf, window_running, main, hist, fs>>

\* No event is pending and the screen is clean: sleep.
WinSleep ==
    /\ win.pc = "events"
    /\ ~screen.dirty
    /\ win' = [win EXCEPT !.pc = "loop"]
    /\ UNCHANGED <<cpu, screen, input_buf, window_running, main, hist, fs>>

(***************************************************************************)
(* The shell: shell_loop, print_prompt and read_line_from_screen.           *)
(***************************************************************************)
\* strcpy(line_buf, input_buf.buffer): the bytes before the first NUL.
CString(buf, i) ==
    LET stop == {k \in i .. i + Cardinality(DOMAIN buf) : Get(buf, k, 0) = 0}
        n == CHOOSE k \in stop : \A j \in stop : k <= j
    IN [j \in 1 .. n - i |-> buf[i + j - 1]]


\* while (window_running) { print_prompt(); ...
ShellPrompt(budget) ==
    /\ main.pc = "prompt"
    /\ hist.lines < budget
    /\ window_running
    /\ screen' = print_prompt(screen)
    /\ main' = [main EXCEPT !.pc = "rl_lock1"]
    /\ UNCHANGED <<cpu, input_buf, window_running, win, hist, fs>>

\* read_line_from_screen: the first lock.
ReadLineLock1 ==
    /\ main.pc = "rl_lock1"
    /\ input_buf.mutex = "free"
    /\ input_buf' = [input_buf EXCEPT !.mutex = "main"]
    /\ main' = [main EXCEPT !.pc = "rl_reset"]
    /\ UNCHANGED <<cpu, screen, window_running, win, hist, fs>>

\* pos = 0; ready = 0; unlock.
ReadLineReset ==
    /\ main.pc = "rl_reset"
    /\ input_buf' = [input_buf EXCEPT !.pos = 0, !.ready = FALSE, !.mutex = "free"]
    /\ main' = [main EXCEPT !.pc = "rl_poll"]
    /\ hist' = [hist EXCEPT !.typed = <<>>, !.entered = FALSE]
    /\ UNCHANGED <<cpu, screen, window_running, win, fs>>

\* The loop of read_line_from_screen without the test of window_running.
ReadLinePollNoClose ==
    /\ main.pc = "rl_poll"
    /\ input_buf.ready
    /\ main' = [main EXCEPT !.pc = "rl_lock2"]
    /\ UNCHANGED <<cpu, screen, input_buf, window_running, win, hist, fs>>

\* while (!input_buf.ready && window_running) sleep_ms(50): the loop ends.
ReadLinePoll ==
    /\ main.pc = "rl_poll"
    /\ input_buf.ready \/ ~window_running
    /\ main' = [main EXCEPT !.pc = "rl_lock2"]
    /\ UNCHANGED <<cpu, screen, input_buf, window_running, win, hist, fs>>

\* The second lock.
ReadLineLock2 ==
    /\ main.pc = "rl_lock2"
    /\ input_buf.mutex = "free"
    /\ input_buf' = [input_buf EXCEPT !.mutex = "main"]
    /\ main' = [main EXCEPT !.pc = "rl_copy"]
    /\ UNCHANGED <<cpu, screen, window_running, win, hist, fs>>

\* strcpy; pos = 0; ready = 0; unlock; putchar_screen('\n'); return line_buf.
ReadLineCopy ==
    /\ main.pc = "rl_copy"
    /\ main' = [main EXCEPT !.pc = "dispatch", !.line_buf = CString(input_buf.buffer, 0)]
    /\ input_buf' = [input_buf EXCEPT !.pos = 0, !.ready = FALSE, !.mutex = "free"]
    /\ screen' = putchar_screen(screen, NL)
    /\ hist' = [hist EXCEPT !.lines = @ + 1,
                            !.at_copy = [typed |-> hist.typed, entered |-> hist.entered]]
    /\ UNCHANGED <<cpu, window_running, win, fs>>

\* strtok(cmd, " ") after the trailing blanks were cut: the first run of
\* characters other than ' ', <<>> if there is none.
Token(line) ==
    LET word == {i \in 1 .. Len(line) : line[i] # SPACE}
    IN IF word = {} THEN <<>>
       ELSE LET a == CHOOSE i \in word : \A j \in word : i <= j
                gaps == {i \in a .. Len(line) : line[i] = SPACE} \cup {Len(line) + 1}
                b == CHOOSE i \in gaps : \A j \in gaps : i <= j
            IN SubSeq(line, a, b - 1)

\* The command is "exit" or "quit".
IsExit(line) == Token(line) \in {<<101, 120, 105, 116>>, <<113, 117, 105, 116>>}

\* strtok(NULL, " ") after the command: the runs of characters other than
\* ' ' that follow the first one.
RECURSIVE Tokens(_)
Tokens(line) ==
    IF line = <<>> THEN <<>>
    ELSE IF Head(line) = SPACE THEN Tokens(Tail(line))
    ELSE LET word == Token(line)
         IN <<word>> \o Tokens(SubSeq(line, Len(word) + 1, Len(line)))

\* The command is "mv".
IsMv(line) == Token(line) = <<109, 118>>

\* if (!window_running) break; otherwise the command is dispatched and the
\* loop goes round (of the commands only exit, quit and mv are modelled).
ShellDispatch ==
    /\ main.pc = "dispatch"
    /\ window_running => (~IsExit(main.line_buf) /\ ~IsMv(main.line_buf))
    /\ main' = [main EXCEPT !.pc = IF window_running THEN "prompt" ELSE "exit"]
    /\ UNCHANGED <<cpu, screen, input_buf, window_running, win, hist, fs>>

\* mv: with two arguments cmd_mv, else the usage line.  Whether fopen and
\* remove succeed is the host's choice.
ShellMv ==
    /\ main.pc = "dispatch"
    /\ window_running
    /\ IsMv(main.line_buf)
    /\ LET args == Tokens(main.line_buf)
       IN IF Len(args) >= 3
          THEN \E ok \in [write : BOOLEAN, remove : BOOLEAN] :
                  LET r == cmd_mv(fs, screen, args[2], args[3], ok)
                  IN fs' = r.fs /\ screen' = r.screen
          ELSE /\ fs' = fs
               /\ screen' = print_to_screen(screen,
                     <<85, 115, 97, 103, 101, 58, 32, 109, 118, 32, 60, 115, 111, 117, 114,
                       99, 101, 62, 32, 60, 100, 101, 115, 116, 105, 110, 97, 116, 105, 111,
                       110, 62, NL>>)
    /\ main' = [main EXCEPT !.pc = "prompt"]
    /\ UNCHANGED <<cpu, input_buf, window_running, win, hist>>

\* exit or quit: "Goodbye!\n" is printed in bright yellow and the loop left.
ShellQuit ==
    /\ main.pc = "dispatch"
    /\ window_running
    /\ IsExit(main.line_buf)
    /\ screen' = [print_to_screen([screen EXCEPT !.current_color = COLOR_BRIGHT_YELLOW],
                                  <<71, 111, 111, 100, 98, 121, 101, 33, NL>>)
                     EXCEPT !.current_color = COLOR_WHITE]
    /\ main' = [main EXCEPT !.pc = "exit"]
    /\ UNCHANGED <<cpu, input_buf, window_running, win, hist, fs>>

\* main after shell_loop has returned: window_running = 0.
MainClose ==
    /\ main.pc = "exit"
    /\ window_running' = FALSE
    /\ main' = [main EXCEPT !.pc = "join"]
    /\ UNCHANGED <<cpu, screen, input_buf, win, hist, fs>>

\* pthread_join returns once window_thread has returned; main returns 0.
MainJoin ==
    /\ main.pc = "join"
    /\ win.pc = "closed"
    /\ main' = [main EXCEPT !.pc = "terminated"]
    /\ UNCHANGED <<cpu, screen, input_buf, window_running, win, hist, fs>>

\* The loop condition fails: shell_loop returns.
ShellExit ==
    /\ main.pc = "prompt"
    /\ ~window_running
    /\ main' = [main EXCEPT !.pc = "exit"]
    /\ UNCHANGED <<cpu, screen, input_buf, window_running, win, hist, fs>>

(***************************************************************************)
(* SpecBus: the shell reading lines while window_thread delivers keys and   *)
(* repaints.                                                                *)
(***************************************************************************)
\* Key events delivered and lines read in one behaviour.
MaxKeys == 3
MaxLines == 2

BusKeys == {97, 98, XK_Return, XK_BackSpace}

\* The screen when shell_loop enters its loop: cleared, the two banner lines.
ScreenAtShell ==
    LET s1 == print_to_screen([clear_screen_display EXCEPT !.current_color = COLOR_BRIGHT_CYAN],
                              <<77, 105, 99, 114, 111, 79, 83, 32, 118, 49, 46, 48, 10>>)
        s2 == print_to_screen([s1 EXCEPT !.current_color = COLOR_YELLOW],
                              <<84, 121, 112, 101, 32, 39, 104, 101, 108, 112, 39, 32, 102, 111, 114, 32, 97, 118, 97, 105, 108, 97, 98, 108, 101, 32, 99, 111, 109, 109, 97, 110, 100, 115, 46, 10, 10>>)
    IN [s2 EXCEPT !.current_color = COLOR_WHITE]

\* The keyboard buffer as main() sets it up.
InputAtBoot ==
    [buffer |-> Empty, pos |-> 0, ready |-> FALSE, last_char |-> 0, char_ready |-> FALSE,
     mutex |-> "free"]

InitBus ==
    /\ cpu = init_cpu
    /\ screen = ScreenAtShell
    /\ input_buf = InputAtBoot
    /\ window_running = TRUE
    /\ main = [pc |-> "prompt", reg |-> 0, line_buf |-> <<>>]
    /\ win = [pc |-> "loop", key |-> 0, frame |-> <<>>]
    /\ fs = FsAtBoot
    /\ hist = HistInit

BusPrompt == ShellPrompt(MaxLines)

BusKey == KeyLock(BusKeys, MaxKeys)

NextBus ==
    \/ BusPrompt \/ ReadLineLock1 \/ ReadLineReset \/ ReadLinePoll \/ ReadLineLock2
    \/ ReadLineCopy \/ ShellDispatch \/ ShellExit
    \/ WinLoop \/ BusKey \/ KeyHandle \/ WinExpose \/ WinDestroy \/ Repaint \/ RepaintDone
    \/ WinSleep

SpecBus == InitBus /\ [][NextBus]_vars

(***************************************************************************)
(* OP_READ_CHAR with a register below 8: the instruction waits for a key.   *)
(***************************************************************************)
\* ReadCharBegin without char_ready = 0.
ReadCharBeginNoReset ==
    /\ main.pc = "run"
    /\ cpu.running /\ cpu.pc < MEM_SIZE
    /\ WaitsForKey(cpu)
    /\ hist.steps < MaxSteps
    /\ input_buf.mutex = "free"
    /\ cpu' = [cpu EXCEPT !.pc = U16(cpu.pc + 2)]
    /\ input_buf' = input_buf
    /\ main' = [main EXCEPT !.pc = "rc_poll", !.reg = Mem(cpu, U16(cpu.pc + 1))]
    /\ hist' = [hist EXCEPT
          !.steps = @ + 1,
          !.last = [at |-> cpu.pc, op |-> OP_READ_CHAR, sp |-> cpu.sp, quiet |-> TRUE,
                    call_at |-> -1, before |-> cpu, push |-> hist.push],
          !.push = [val |-> -1, sp |-> -1],
          !.after_close = IF window_running THEN @ ELSE IF @ < 2 THEN @ + 1 ELSE @,
          !.sig = [@ EXCEPT !.since = FALSE]]
    /\ UNCHANGED <<screen, window_running, win, fs>>

\* The opcode and the register byte are fetched; lock; char_ready = 0; unlock.
ReadCharBegin ==
    /\ main.pc = "run"
    /\ cpu.running /\ cpu.pc < MEM_SIZE
    /\ WaitsForKey(cpu)
    /\ hist.steps < MaxSteps
    /\ input_buf.mutex = "free"
    /\ cpu' = [cpu EXCEPT !.pc = U16(cpu.pc + 2)]
    /\ input_buf' = [input_buf EXCEPT !.char_ready = FALSE]
    /\ main' = [main EXCEPT !.pc = "rc_poll", !.reg = Mem(cpu, U16(cpu.pc + 1))]
    /\ hist' = [hist EXCEPT
          !.steps = @ + 1,
          !.last = [at |-> cpu.pc, op |-> OP_READ_CHAR, sp |-> cpu.sp, quiet |-> TRUE,
                    call_at |-> -1, before |-> cpu, push |-> hist.push],
          !.push = [val |-> -1, sp |-> -1],
          !.after_close = IF window_running THEN @ ELSE IF @ < 2 THEN @ + 1 ELSE @,
          !.sig = [@ EXCEPT !.since = FALSE]]
    /\ UNCHANGED <<screen, window_running, win, fs>>

\* while (!input_buf.char_ready && window_running) sleep_ms(50): the loop ends.
ReadCharPoll ==
    /\ main.pc = "rc_poll"
    /\ input_buf.char_ready \/ ~window_running
    /\ main' = [main EXCEPT !.pc = "rc_load"]
    /\ UNCHANGED <<cpu, screen, input_buf, window_running, win, hist, fs>>

\* lock; cpu.regs[reg] = input_buf.last_char; unlock.
ReadCharEnd ==
    /\ main.pc = "rc_load"
    /\ input_buf.mutex = "free"
    /\ cpu' = [cpu EXCEPT !.regs[main.reg] = input_buf.last_char]
    /\ main' = [main EXCEPT !.pc = "run"]
    /\ UNCHANGED <<screen, input_buf, window_running, win, hist, fs>>

(***************************************************************************)
(* SpecKeys: a program that reads one key, while keys are typed.            *)
(***************************************************************************)
\* Key events delivered in one behaviour.
MaxKeyEvents == 256

\* The key typed: 'k'.
TypedKeys == {107}

\* READ_CHAR r0 ; HALT
ImgReadChar == [bytes |-> At(0, <<OP_READ_CHAR, 0, OP_HALT>>), size |-> 3]

InitKeys ==
    /\ cpu = load_program(init_cpu, ImgReadChar.bytes, ImgReadChar.size)
    /\ screen = ScreenAtRun
    /\ input_buf = InputAtRun
    /\ window_running = TRUE
    /\ main = MainAtRun
    /\ win = WinIdle
    /\ fs = FsAtBoot
    /\ hist = HistInit

TypeKey == KeyLock(TypedKeys, MaxKeyEvents)

NextKeys ==
    \/ ExecuteInstruction \/ RunExit \/ ReadCharBegin \/ ReadCharPoll \/ ReadCharEnd
    \/ TypeKey \/ KeyHandle \/ WinDestroy

SpecKeys == InitKeys /\ [][NextKeys]_vars

(***************************************************************************)
(* SpecScreen: putchar_screen from every cursor position.                   *)
(***************************************************************************)
\* Bytes written in one behaviour.
MaxPuts == 2

\* One byte of each kind putchar_screen tells apart; 120 is 'x'.
PutBytes == {NL, CR, BS, TAB, 120}

\* The screen after OP_CLEAR_SCREEN and OP_SET_CURSOR x, y.
ScreenAt(x, y) == [clear_screen_display EXCEPT !.cursor_x = x, !.cursor_y = y, !.dirty = TRUE]

InitScreen ==
    /\ cpu = init_cpu
    /\ \E x \in 0 .. SCREEN_WIDTH - 1, y \in 0 .. SCREEN_HEIGHT - 1 : screen = ScreenAt(x, y)
    /\ input_buf = InputAtRun
    /\ window_running = TRUE
    /\ main = [pc |-> "put", reg |-> 0, line_buf |-> <<>>]
    /\ win = WinIdle
    /\ fs = FsAtBoot
    /\ hist = HistInit

\* The main thread writes one byte.
PutChar ==
    /\ main.pc = "put"
    /\ hist.steps < MaxPuts
    /\ \E c \in PutBytes :
          /\ screen' = putchar_screen(screen, c)
          /\ hist' = [hist EXCEPT !.steps = @ + 1, !.last.op = c]
    /\ UNCHANGED <<cpu, input_buf, window_running, main, win, fs>>

NextScreen == PutChar

SpecScreen == InitScreen /\ [][NextScreen]_vars

(***************************************************************************)
(* SpecPaint: a program that changes the screen while window_thread paints. *)
(***************************************************************************)
\* SET_COLOR 12; HALT
ImgColor == [bytes |-> At(0, <<OP_SET_COLOR, 12, OP_HALT>>), size |-> 3]

\* SET_PIXEL x = 400, y = 0, value 1 (outside the 320 x 200 plane); HALT
ImgOffPixel == [bytes |-> At(0, <<OP_SET_PIXEL, 144, 1, 0, 0, 1, OP_HALT>>), size |-> 7]

\* SET_PIXEL x = 2, y = 1, value 1; CLEAR_PIXELS; SET_CURSOR 5, 5; HALT
ImgPixel ==
    [bytes |-> At(0, <<OP_SET_PIXEL, 2, 0, 1, 0, 1, OP_CLEAR_PIXELS, OP_SET_CURSOR, 5, 5,
                       OP_HALT>>),
     size |-> 11]

PaintImages == {ImgColor, ImgOffPixel, ImgPixel, ImgHi}

InitPaint ==
    /\ \E img \in PaintImages : cpu = load_program(init_cpu, img.bytes, img.size)
    /\ screen = ScreenAtRun
    /\ input_buf = InputAtRun
    /\ window_running = TRUE
    /\ main = MainAtRun
    /\ win = WinIdle
    /\ fs = FsAtBoot
    /\ hist = HistInit

NextPaint ==
    \/ ExecuteInstruction \/ RunExit
    \/ WinLoop \/ WinExpose \/ WinDestroy \/ Repaint \/ RepaintDone \/ WinSleep

SpecPaint == InitPaint /\ [][NextPaint]_vars

(***************************************************************************)
(* SpecAlu: run_program on programs built from a few parameters, which the  *)
(* history variable keeps in hist.prog.                                     *)
(***************************************************************************)
\* LOAD_REG r, v; STORE_REG r, A; LOAD_MEM r2, A; HALT
ImgRoundTrip(g) ==
    [bytes |-> At(0, <<OP_LOAD_REG, g.r, Lo(g.v), Hi(g.v),
                       OP_STORE_REG, g.r, Lo(g.A), Hi(g.A),
                       OP_LOAD_MEM, g.r2, Lo(g.A), Hi(g.A), OP_HALT>>),
     size |-> 13]

\* LOAD_REG r1, a; LOAD_REG r2, b; CMP r1, r2; CMP r2, r1; CMP r1, r1; HALT
ImgCmp(g) ==
    [bytes |-> At(0, <<OP_LOAD_REG, 1, Lo(g.a), Hi(g.a), OP_LOAD_REG, 2, Lo(g.b), Hi(g.b),
                       OP_CMP, 1, 2, OP_CMP, 2, 1, OP_CMP, 1, 1, OP_HALT>>),
     size |-> 18]

\* 0, 1, 0x7FFF, 0x8000, 0xFFFF
WordValues == {0, 1, 32767, 32768, 65535}

Cmps == [kind : {"cmp"}, a : WordValues, b : WordValues]

\* LOAD_REG r1, a; LOAD_REG r2, b; ADD r0, r1, r2; SUB r3, r1, r2;
\* MUL r4, r1, r2; ADD r1, r1, r2; MUL r2, r4, r2; HALT
ImgArith(g) ==
    [bytes |-> At(0, <<OP_LOAD_REG, 1, Lo(g.a), Hi(g.a), OP_LOAD_REG, 2, Lo(g.b), Hi(g.b),
                       OP_ADD, 0, 1, 2, OP_SUB, 3, 1, 2, OP_MUL, 4, 1, 2,
                       OP_ADD, 1, 1, 2, OP_MUL, 2, 4, 2, OP_HALT>>),
     size |-> 29]

Ariths == [kind : {"arith"}, a : WordValues, b : WordValues]

\* LOAD_REG r0, n; LOAD_REG r1, 1; LOAD_REG r2, 0;
\* L: PRINT_CHAR '*'; SUB r0, r0, r1; CMP r0, r2; JNZ L; HALT
ImgCountdown(g) ==
    [bytes |-> At(0, <<OP_LOAD_REG, 0, Lo(g.n), Hi(g.n), OP_LOAD_REG, 1, 1, 0,
                       OP_LOAD_REG, 2, 0, 0,
                       OP_PRINT_CHAR, 42, OP_SUB, 0, 0, 1, OP_CMP, 0, 2, OP_JNZ, 12, 0,
                       OP_HALT>>),
     size |-> 25]

\* ---------------------------------------------------------------------------
\* The demo generator (src/fs/makedemo.c).  Its opcode table agrees with the
\* machine's on every opcode loop_test emits except the compare: the
\* generator's OP_CMP is 0x58, which the machine decodes as OP_NOT.
\* ---------------------------------------------------------------------------
GEN_OP_CMP == 88

emit_word(word) == <<Lo(word), Hi(word)>>

cmp_regs(src1, src2) == <<GEN_OP_CMP, src1, src2>>

\* The bytes loop_test appends to the program p (the texts other than "*" and
\* the pause before the loop are left out), followed by main's halt.
loop_test(p) ==
    LET head == p \o <<OP_CLEAR_SCREEN>>
                  \o <<OP_LOAD_REG, 0>> \o emit_word(10)
                  \o <<OP_LOAD_REG, 1>> \o emit_word(1)
                  \o <<OP_LOAD_REG, 2>> \o emit_word(0)
        loop_start == Len(head)
    IN head \o <<OP_PRINT_STR, 42, 0>>
            \o <<OP_SLEEP_MS>> \o emit_word(200)
            \o <<OP_BEEP>> \o emit_word(440) \o emit_word(50)
            \o <<OP_SUB, 0, 0, 1>>
            \o cmp_regs(0, 2)
            \o <<OP_JNZ>> \o emit_word(loop_start)
            \o <<OP_SLEEP_MS>> \o emit_word(1500)
            \o <<OP_HALT>>

ImgLoopTest(g) ==
    [bytes |-> At(0, loop_test(<<>>)), size |-> Len(loop_test(<<>>))]

Generated == [kind : {"loop_test"}, n : {10}]

\* COPY_MEM src, dst, len; HALT.
ImgCopy(g) ==
    [bytes |-> At(0, <<OP_COPY_MEM>> \o emit_word(g.src) \o emit_word(g.dst)
                     \o emit_word(g.len) \o <<OP_HALT>>),
     size |-> 8]

\* An overlapping copy whose operand words read the same in either byte order,
\* and a copy whose destination is the last byte of memory.
Copies ==
    {[kind |-> "copy", src |-> 0, dst |-> 257, len |-> 771],
     [kind |-> "copy", src |-> 0, dst |-> 65535, len |-> 1]}

\* The largest count of the countdown loop.
MaxCount == 5

Countdowns == [kind : {"countdown"}, n : 1 .. MaxCount]

RoundTrips ==
    [kind : {"roundtrip"}, r : {0, 7}, r2 : {0, 3}, v : {4660, 65535},
     A : {3, 7, 9, 11, 12, 300, 65534, 65535}]

AluPrograms == RoundTrips \cup Cmps \cup Ariths \cup Countdowns \cup Generated \cup Copies

AluImage(g) ==
    CASE g.kind = "roundtrip" -> ImgRoundTrip(g)
      [] g.kind = "cmp" -> ImgCmp(g)
      [] g.kind = "arith" -> ImgArith(g)
      [] g.kind = "countdown" -> ImgCountdown(g)
      [] g.kind = "loop_test" -> ImgLoopTest(g)
      [] g.kind = "copy" -> ImgCopy(g)

InitAlu ==
    /\ \E g \in AluPrograms :
          /\ cpu = load_program(init_cpu, AluImage(g).bytes, AluImage(g).size)
          /\ hist = [HistInit EXCEPT !.prog = g]
    /\ screen = ScreenAtRun
    /\ input_buf = InputAtRun
    /\ window_running = TRUE
    /\ main = MainAtRun
    /\ win = WinIdle
    /\ fs = FsAtBoot

NextAlu == ExecuteInstruction \/ RunExit

SpecAlu == InitAlu /\ [][NextAlu]_vars











(***************************************************************************)
(* SpecEcho: a program that prints its way down to the last row while keys  *)
(* are typed.                                                               *)
(***************************************************************************)
\* Key events delivered in one behaviour.
MaxEchoKeys == 3

EchoKeys == {107, XK_BackSpace}

\* PRINT_STR of n newlines, then of "ab"; HALT
ImgNewlines(n) ==
    [bytes |-> At(0, <<OP_PRINT_STR>> \o [i \in 1 .. n |-> NL]
                     \o <<0, OP_PRINT_STR, 97, 98, 0, OP_HALT>>),
     size |-> n + 6]

\* From row 3, where a run starts: down to the last row, and one row further.
EchoImages == {ImgNewlines(SCREEN_HEIGHT - 4), ImgNewlines(SCREEN_HEIGHT - 3)}

InitEcho ==
    /\ \E img \in EchoImages : cpu = load_program(init_cpu, img.bytes, img.size)
    /\ screen = ScreenAtRun
    /\ input_buf = InputAtRun
    /\ window_running = TRUE
    /\ main = MainAtRun
    /\ win = WinIdle
    /\ fs = FsAtBoot
    /\ hist = HistInit

EchoKey == KeyLock(EchoKeys, MaxEchoKeys)

NextEcho == ExecuteInstruction \/ RunExit \/ EchoKey \/ KeyHandle

SpecEcho == InitEcho /\ [][NextEcho]_vars

(***************************************************************************)
(* SpecTear: the drawing opcodes and CLEAR_PIXELS in two steps, as the      *)
(* display thread can see them: first the calls that write the pixels and   *)
(* set dirty (set_pixel, draw_line, .., clear_pixels), then the store       *)
(* screen.pixel_mode = 1 or 0 that follows them in the case.                *)
(***************************************************************************)
\* The instruction at c.pc ends with a store to screen.pixel_mode.
StoresPixelMode(c) ==
    /\ OpcodeAt(c) \in {OP_SET_PIXEL, OP_DRAW_LINE, OP_DRAW_RECT, OP_FILL_RECT,
                        OP_DRAW_CIRCLE, OP_CLEAR_PIXELS}
    /\ Complete(c)

\* The operands are read and set_pixel, draw_... or clear_pixels has returned.
DrawHead ==
    /\ main.pc = "run"
    /\ cpu.running /\ cpu.pc < MEM_SIZE
    /\ StoresPixelMode(cpu)
    /\ hist.steps < MaxSteps
    /\ \E nd \in Choices :
          LET r == execute_instruction(cpu, screen, nd)
          IN /\ cpu' = r.cpu
             /\ screen' = [r.screen EXCEPT !.pixel_mode = screen.pixel_mode]
             /\ main' = [main EXCEPT !.pc = "tail", !.reg = IF r.screen.pixel_mode THEN 1 ELSE 0]
    /\ hist' = [hist EXCEPT
          !.steps = @ + 1,
          !.last = [at |-> cpu.pc, op |-> OpcodeAt(cpu), sp |-> cpu.sp, quiet |-> FALSE,
                    call_at |-> -1, before |-> cpu, push |-> hist.push],
          !.push = [val |-> -1, sp |-> -1]]
    /\ UNCHANGED <<input_buf, window_running, win, fs>>

\* screen.pixel_mode = 1 (or 0 in CLEAR_PIXELS); break.
DrawTail ==
    /\ main.pc = "tail"
    /\ screen' = [screen EXCEPT !.pixel_mode = (main.reg = 1)]
    /\ main' = [main EXCEPT !.pc = "run"]
    /\ UNCHANGED <<cpu, input_buf, window_running, win, hist, fs>>

\* Any other instruction.
ExecuteOther == ~StoresPixelMode(cpu) /\ ExecuteInstruction

NextTear ==
    \/ DrawHead \/ DrawTail \/ ExecuteOther \/ RunExit
    \/ WinLoop \/ Repaint \/ RepaintDone \/ WinSleep

SpecTear == InitPaint /\ [][NextTear]_vars





(***************************************************************************)
(* SpecChar: a program that reads two keys, while keys of every kind are    *)
(* typed and the window may be closed.                                      *)
(***************************************************************************)
\* Key events delivered in one behaviour.
MaxCharKeys == 3

\* 'k', 'l', Enter and BackSpace.
CharKeys == {107, 108, XK_Return, XK_BackSpace}

\* READ_CHAR r0 ; READ_CHAR r1 ; HALT
ImgReadTwo ==
    [bytes |-> At(0, <<OP_READ_CHAR, 0, OP_READ_CHAR, 1, OP_HALT>>), size |-> 5]

InitChar ==
    /\ cpu = load_program(init_cpu, ImgReadTwo.bytes, ImgReadTwo.size)
    /\ screen = ScreenAtRun
    /\ input_buf = InputAtRun
    /\ window_running = TRUE
    /\ main = MainAtRun
    /\ win = WinIdle
    /\ fs = FsAtBoot
    /\ hist = HistInit

CharKey == KeyLock(CharKeys, MaxCharKeys)

NextChar ==
    \/ ExecuteInstruction \/ RunExit \/ ReadCharBegin \/ ReadCharPoll \/ ReadCharEnd
    \/ CharKey \/ KeyHandle \/ WinDestroy

SpecChar == InitChar /\ [][NextChar]_vars

(***************************************************************************)
(* SpecQuit: the shell idle in read_line_from_screen with "exi" typed, while *)
(* 't' and Enter may be typed and the window may be closed; both threads    *)
(* run to their end.  FairQuit adds the scheduler: each thread that can     *)
(* take a step eventually takes one.                                        *)
(***************************************************************************)
\* Key events delivered and lines read in one behaviour.
MaxQuitKeys == 2
MaxQuitLines == 2

\* 't' and Enter.
QuitKeys == {116, XK_Return}

InitQuit ==
    /\ cpu = init_cpu
    /\ screen = KeyEcho(KeyEcho(KeyEcho(print_prompt(ScreenAtShell), 101), 120), 105)
    /\ input_buf = [InputAtBoot EXCEPT !.buffer = At(0, <<101, 120, 105>>), !.pos = 3,
                                       !.last_char = 105, !.char_ready = TRUE]
    /\ window_running = TRUE
    /\ main = [pc |-> "rl_poll", reg |-> 0, line_buf |-> <<>>]
    /\ win = [pc |-> "loop", key |-> 0, frame |-> <<>>]
    /\ fs = FsAtBoot
    /\ hist = [HistInit EXCEPT !.typed = <<101, 120, 105>>]

QuitPrompt == ShellPrompt(MaxQuitLines)

QuitKey == KeyLock(QuitKeys, MaxQuitKeys)

\* The steps of the main thread and those of window_thread itself (the
\* arrival of an event is the environment's step).
MainStep ==
    \/ QuitPrompt \/ ReadLineLock1 \/ ReadLineReset \/ ReadLinePoll \/ ReadLineLock2
    \/ ReadLineCopy \/ ShellDispatch \/ ShellQuit \/ ShellExit \/ MainClose \/ MainJoin

WinThreadStep == WinLoop \/ KeyHandle \/ Repaint \/ RepaintDone \/ WinSleep

NextQuit ==
    \/ QuitPrompt \/ ReadLineLock1 \/ ReadLineReset \/ ReadLinePoll \/ ReadLineLock2
    \/ ReadLineCopy \/ ShellDispatch \/ ShellQuit \/ ShellExit \/ MainClose \/ MainJoin
    \/ WinLoop \/ QuitKey \/ KeyHandle \/ WinExpose \/ WinDestroy \/ Repaint \/ RepaintDone
    \/ WinSleep

SpecQuit == InitQuit /\ [][NextQuit]_vars

FairQuit == SpecQuit /\ WF_vars(MainStep) /\ WF_vars(WinThreadStep)

(***************************************************************************)
(* SpecScroll: putchar_screen on a screen with text in several colours,     *)
(* the cursor on the last row or below it.                                  *)
(***************************************************************************)
\* The screen after the banner, k newlines, "hi\n" in bright cyan, "yo\n",
\* n more newlines and t tabs, with the colour c set: the cursor is at row
\* k + n + 5 and column 4t.
ScrollScreen(k, n, t, c) ==
    LET s1 == print_to_screen(ScreenAtShell, [i \in 1 .. k |-> NL])
        s2 == print_to_screen([s1 EXCEPT !.current_color = COLOR_BRIGHT_CYAN],
                              <<104, 105, NL>>)
        s3 == print_to_screen([s2 EXCEPT !.current_color = COLOR_WHITE],
                              <<121, 111, NL>> \o [i \in 1 .. n |-> NL] \o [i \in 1 .. t |-> TAB])
    IN [s3 EXCEPT !.current_color = c]

InitScroll ==
    /\ cpu = init_cpu
    /\ \E k \in {19, 20}, n \in {0, 2}, t \in {0, 1, 20}, c \in {COLOR_WHITE, COLOR_BRIGHT_GREEN} :
          screen = ScrollScreen(k, n, t, c)
    /\ input_buf = InputAtRun
    /\ window_running = TRUE
    /\ main = [pc |-> "put", reg |-> 0, line_buf |-> <<>>]
    /\ win = WinIdle
    /\ fs = FsAtBoot
    /\ hist = HistInit

SpecScroll == InitScroll /\ [][PutChar]_vars

(***************************************************************************)
(* SpecDeep: a run long enough for the stack pointer, once it has wrapped   *)
(* to 65535, to come down to the CPU structure's own members.               *)
(***************************************************************************)
\* Instructions one long run executes.
MaxDeepSteps == 33860

\* LOAD_REG r0, 0xABCD ; L: thirty times PUSH r0 ; JMP L
ImgPushRun ==
    [bytes |-> At(0, <<OP_LOAD_REG, 0, 205, 171>>
                     \o [i \in 1 .. 60 |-> IF i % 2 = 1 THEN OP_PUSH ELSE 0]
                     \o <<OP_JMP, 4, 0>>),
     size |-> 67]

InitDeep ==
    /\ \E img \in {ImgPushRun, ImgHi} : cpu = load_program(init_cpu, img.bytes, img.size)
    /\ screen = ScreenAtRun
    /\ input_buf = InputAtRun
    /\ window_running = TRUE
    /\ main = MainAtRun
    /\ win = WinIdle
    /\ fs = FsAtBoot
    /\ hist = HistInit

DeepExecute == ExecuteWithin(MaxDeepSteps)

NextDeep == DeepExecute \/ RunExit

SpecDeep == InitDeep /\ [][NextDeep]_vars

(***************************************************************************)
(* SpecFill: the shell idle in read_line_from_screen with a line of 253     *)
(* characters typed, while more keys are typed and lines are read (of       *)
(* window_thread only the key handler and the close).                       *)
(***************************************************************************)
\* Key events delivered and lines read in one behaviour; the length of the
\* line typed so far.
MaxFillKeys == 5
MaxFillLines == 2
FillLen == 253

FillKeys == {107, XK_Return, XK_BackSpace}

\* n printable keys echoed one after the other.
RECURSIVE EchoRun(_, _)
EchoRun(s, n) ==
    IF n = 0 THEN s
    ELSE CHOOSE r \in {EchoRun(t, n - 1) : t \in {KeyEcho(s, 107)}} : TRUE

\* Of the 253 keys the first 78 were echoed, up to the end of the row; the
\* others found the cursor at column 80.
InitFill ==
    /\ cpu = init_cpu
    /\ screen = EchoRun(print_prompt(ScreenAtShell), SCREEN_WIDTH - 2)
    /\ input_buf = [InputAtBoot EXCEPT !.buffer = [i \in 0 .. FillLen - 1 |-> 107],
                                       !.pos = FillLen,
                                       !.last_char = 107, !.char_ready = TRUE]
    /\ window_running = TRUE
    /\ main = [pc |-> "rl_poll", reg |-> 0, line_buf |-> <<>>]
    /\ win = WinIdle
    /\ fs = FsAtBoot
    /\ hist = [HistInit EXCEPT !.typed = [i \in 1 .. FillLen |-> 107]]

FillPrompt == ShellPrompt(MaxFillLines)

FillKey == KeyLock(FillKeys, MaxFillKeys)

NextFill ==
    \/ FillPrompt \/ ReadLineLock1 \/ ReadLineReset \/ ReadLinePoll \/ ReadLineLock2
    \/ ReadLineCopy \/ ShellDispatch \/ ShellExit
    \/ FillKey \/ KeyHandle \/ WinDestroy

SpecFill == InitFill /\ [][NextFill]_vars

(***************************************************************************)
(* SpecMv: the shell dispatching an mv command on a directory with one or   *)
(* two files.                                                               *)
(***************************************************************************)
\* The names a, b and c; a holds "hi", b holds "x".
FileNames == {<<97>>, <<98>>, <<99>>}

Disks ==
    {(<<97>> :> <<104, 105>>),
     (<<98>> :> <<120>>),
     (<<97>> :> <<104, 105>>) @@ (<<98>> :> <<120>>)}

\* "mv s d" for all names s and d, and "mv a".
MvLines ==
    {<<109, 118, SPACE>> \o s \o <<SPACE>> \o d : s \in FileNames, d \in FileNames}
    \cup {<<109, 118, SPACE, 97>>}

InitMv ==
    /\ cpu = init_cpu
    /\ screen = ScreenAtShell
    /\ input_buf = InputAtBoot
    /\ window_running = TRUE
    /\ \E line \in MvLines : main = [pc |-> "dispatch", reg |-> 0, line_buf |-> line]
    /\ win = WinIdle
    /\ \E disk \in Disks : fs = scan_filesystem([disk |-> disk, files |-> <<>>])
    /\ hist = HistInit

NextMv == ShellMv \/ ShellDispatch \/ ShellExit \/ WinDestroy

SpecMv == InitMv /\ [][NextMv]_vars

(***************************************************************************)
(* Properties.                                                              *)
(***************************************************************************)

\* C1: CALL and RET are inverses: a RET that answers a CALL (executed at any
\* address with sp > 1, the stack balanced in between) leaves pc at the
\* address right after the CALL's two operand bytes.
C1_CallRetInverse ==
    (hist.last.op = OP_RET /\ hist.last.call_at >= 0)
        => cpu.pc = U16(hist.last.call_at + 3)

\* C2: for every image and every number of executed instructions, pc stays
\* below 65536 and sp stays within 0 .. 255.
C2_PcSpInRange == cpu.pc < MEM_SIZE /\ cpu.sp \in 0 .. STACK_SIZE - 1

\* C3: once window_running is false the run loop finishes the instruction in
\* progress and returns: at most one instruction is executed after the flag
\* fell.
C3_RunLoopStopsOnShutdown == hist.after_close <= 1

\* C4: an instruction whose operand bytes would extend past the end of memory
\* halts the VM silently: running is false afterwards and nothing was printed.
C4_TruncatedOperandHalts ==
    (/\ hist.last.op \in Opcodes \ {OP_PRINT_STR}
     /\ OperandBytes(hist.last.op) > 0
     /\ hist.last.at + OperandBytes(hist.last.op) >= MEM_SIZE)
        => (~cpu.running /\ hist.last.quiet)

\* A step of the display thread (window_thread).
WinStep ==
    BusKey \/ KeyHandle \/ WinLoop \/ WinExpose \/ WinDestroy \/ Repaint \/ RepaintDone
    \/ WinSleep

\* C5: no repaint is lost: when the dirty flag is clear and the display
\* thread is between repaints, the frame painted last shows the surface as it
\* is now (its contents and its mode).
C5_NoLostRepaint ==
    (~screen.dirty /\ win.pc \in {"loop", "events"}) => win.frame = Frame(screen)

\* C6: a thread whose next statement reads or writes a field of the keyboard
\* buffer holds the mutex: the main thread in read_line_from_screen (the
\* reset, the poll of ready, the copy) and the display thread in its key
\* handler.
C6_BusAccessUnderMutex ==
    /\ main.pc \in {"rl_reset", "rl_poll", "rl_copy"} => input_buf.mutex = "main"
    /\ win.pc = "key" => input_buf.mutex = "win"

\* C7: no step of the display thread changes the text grid, the colour grid,
\* the pixel plane or the cursor position.
C7_DisplayThreadReadOnly ==
    [][WinStep => /\ screen'.chars = screen.chars
                  /\ screen'.colors = screen.colors
                  /\ screen'.pixels = screen.pixels
                  /\ screen'.cursor_x = screen.cursor_x
                  /\ screen'.cursor_y = screen.cursor_y]_vars

\* C8: when read_line_from_screen returns after an Enter, the line it returns
\* is the printable keys typed, net of backspaces, between its reset of the
\* buffer and that Enter; keys pressed after the Enter do not change it.
C8_ReadLineReturnsTypedLine ==
    (main.pc = "dispatch" /\ hist.at_copy.entered) => main.line_buf = hist.at_copy.typed

\* C9: the handling of a printable key always leaves last_char equal to the
\* key and char_ready set, whatever the fill of the buffer.
C9_PrintableKeySignals ==
    [][(win.pc = "key" /\ win'.pc = "events" /\ win.key \in Printable)
          => (input_buf'.last_char = win.key /\ input_buf'.char_ready)]_vars

\* C10: after a byte was written through putchar_screen, the cursor is on
\* the screen: cursor_x < 80 and cursor_y < 25.
C10_CursorOnScreenAfterPutchar ==
    hist.steps > 0 => (screen.cursor_x < SCREEN_WIDTH /\ screen.cursor_y < SCREEN_HEIGHT)

\* C11: in every reachable state of the screen the cursor is within
\* 0 <= cursor_x <= 80 and 0 <= cursor_y < 25.
C11_CursorRange ==
    /\ screen.cursor_x \in 0 .. SCREEN_WIDTH
    /\ screen.cursor_y \in 0 .. SCREEN_HEIGHT - 1

\* The program img is the one loaded.
Loaded(img) == \A a \in DOMAIN img.bytes : Mem(cpu, a) = img.bytes[a]

\* C12: newlines scroll: once the program that fills row 0 with 'x' and then
\* prints 30 newlines has halted, no 'x' is left in the grid and the cursor is
\* at column 0, row 24.
C12_NewlinesScroll ==
    (Loaded(ImgScroll) /\ hist.last.op = OP_HALT)
        => /\ \A p \in DOMAIN screen.chars : screen.chars[p] # 120
           /\ screen.cursor_x = 0
           /\ screen.cursor_y = SCREEN_HEIGHT - 1

\* C13: KEY_PRESSED r (r in 0..7) does not fault: afterwards the VM is still
\* running, pc is past the operand byte, regs[r] is 1 if char_ready else 0,
\* and nothing was printed.
C13_KeyPressedNeverFaults ==
    LET b == hist.last.before
    IN (hist.last.op = OP_KEY_PRESSED /\ b.pc + 1 < MEM_SIZE /\ Mem(b, b.pc + 1) < 8)
          => /\ cpu.running
             /\ cpu.pc = U16(b.pc + 2)
             /\ cpu.regs[Mem(b, b.pc + 1)] = (IF input_buf.char_ready THEN 1 ELSE 0)
             /\ hist.last.quiet

\* C14: DRAW_SPRITE is implemented: afterwards the VM is still running, pc is
\* past the 10 operand bytes and pixel_mode is set.
C14_DrawSpriteImplemented ==
    LET b == hist.last.before
    IN (hist.last.op = OP_DRAW_SPRITE /\ b.pc + 10 < MEM_SIZE)
          => /\ cpu.running
             /\ cpu.pc = U16(b.pc + 11)
             /\ screen.pixel_mode

\* C15: an instruction ignored for a register above 7, a refused address or
\* a division by zero leaves pc at the next instruction: past the opcode and
\* all operand bytes of its schema.
C15_IgnoredAdvancesPc ==
    LET b == hist.last.before
    IN (hist.last.op >= 0 /\ (BadReg(b) \/ BadAddr(b) \/ DivByZero(b)))
          => cpu.pc = U16(b.pc + 1 + OperandBytes(hist.last.op))

\* C16: an instruction with a register operand above 7 changes no register,
\* flag, memory byte or sp and leaves the VM running.
C16_BadRegisterNoOp ==
    LET b == hist.last.before
    IN (hist.last.op >= 0 /\ BadReg(b))
          => /\ cpu.regs = b.regs
             /\ cpu.flags = b.flags
             /\ cpu.memory = b.memory
             /\ cpu.sp = b.sp
             /\ cpu.running

\* C17: PUSH or CALL with sp <= 1 and POP or RET with sp >= 255 change
\* neither sp nor memory, and execution goes on at the next instruction.
C17_StackLimitsNoOp ==
    LET b == hist.last.before
        op == hist.last.op
    IN (/\ op \in {OP_PUSH, OP_CALL, OP_POP, OP_RET}
        /\ Complete(b) /\ ~BadReg(b)
        /\ \/ op \in {OP_PUSH, OP_CALL} /\ b.sp <= 1
           \/ op \in {OP_POP, OP_RET} /\ b.sp >= STACK_SIZE - 1)
          => /\ cpu.sp = b.sp
             /\ cpu.memory = b.memory
             /\ cpu.pc = U16(b.pc + 1 + OperandBytes(op))
             /\ cpu.running

\* C18: PUSH r immediately followed by POP r' leaves regs[r'] equal to the
\* value pushed and sp where it was before the PUSH.
C18_PushPopRoundTrip ==
    LET b == hist.last.before
    IN (hist.last.op = OP_POP /\ hist.last.push.sp >= 0 /\ Complete(b) /\ ~BadReg(b))
          => /\ cpu.regs[Mem(b, b.pc + 1)] = hist.last.push.val
             /\ cpu.sp = hist.last.push.sp

\* C19: the reset of a second run leaves memory alone: when the second
\* program has just been loaded, every byte beyond its image holds what the
\* first run left there.
C19_ResetKeepsMemory ==
    (hist.runs = 2 /\ hist.last.op = -1)
        => \A a \in DOMAIN hist.residue \cup DOMAIN cpu.memory :
              a >= hist.size => Mem(cpu, a) = Get(hist.residue, a, 0)

\* C20: a step that changes a field of the screen (text cells, colour
\* cells, pixels, cursor position, pixel_mode, current_color) leaves
\* dirty = true.
C20_MutationSetsDirty ==
    [][(\/ screen'.chars # screen.chars
        \/ screen'.colors # screen.colors
        \/ screen'.pixels # screen.pixels
        \/ screen'.cursor_x # screen.cursor_x
        \/ screen'.cursor_y # screen.cursor_y
        \/ screen'.pixel_mode # screen.pixel_mode
        \/ screen'.current_color # screen.current_color)
          => screen'.dirty]_vars

\* C21: a program without a backward branch stops after a bounded number of
\* steps, so it never comes back to the state it started in: once the
\* forward-only image ImgWrap has executed an instruction, the CPU and the
\* screen are never again those of the start of the run.
C21_ForwardOnlyNeverRecurs ==
    (hist.runs = 1 /\ Loaded(ImgWrap) /\ hist.steps > 0)
        => ~(/\ cpu = load_program(init_cpu, ImgWrap.bytes, ImgWrap.size)
             /\ screen = ScreenAtRun)

\* C22: an instruction of the program that draws (SET_PIXEL, DRAW_LINE,
\* DRAW_RECT, FILL_RECT, DRAW_CIRCLE) leaves pixel_mode set; pixel_mode goes
\* from set to clear only in CLEAR_PIXELS; CLEAR_SCREEN leaves pixel_mode,
\* the pixels and current_color as they were.
C22_ClearScreenKeepsPixels ==
    [][(hist'.steps = hist.steps + 1 /\ Complete(cpu))
          => /\ OpcodeAt(cpu) \in {OP_SET_PIXEL, OP_DRAW_LINE, OP_DRAW_RECT, OP_FILL_RECT,
                                   OP_DRAW_CIRCLE} => screen'.pixel_mode
             /\ (screen.pixel_mode /\ ~screen'.pixel_mode) => OpcodeAt(cpu) = OP_CLEAR_PIXELS
             /\ OpcodeAt(cpu) = OP_CLEAR_SCREEN
                    => /\ screen'.pixel_mode = screen.pixel_mode
                       /\ screen'.pixels = screen.pixels
                       /\ screen'.current_color = screen.current_color]_vars

\* The line "Error: Unknown opcode 0xNN", NN in upper-case hexadecimal.
UnknownOpcodeLine(n) ==
    LET digits == <<48, 49, 50, 51, 52, 53, 54, 55, 56, 57, 65, 66, 67, 68, 69, 70>>
    IN <<69, 114, 114, 111, 114, 58, 32>>
       \o <<85, 110, 107, 110, 111, 119, 110, 32>>
       \o <<111, 112, 99, 111, 100, 101, 32>>
       \o <<48, 120, digits[(n \div 16) + 1], digits[(n % 16) + 1], NL>>

\* C23: executing a byte that is no opcode prints the line "Error: Unknown
\* opcode 0xNN" (NN the byte in two upper-case hex digits) on the screen and
\* clears running; registers, flags, sp and memory stay as they were.
C23_UnknownOpcodeFaults ==
    [][(hist'.steps = hist.steps + 1 /\ OpcodeAt(cpu) \notin Opcodes)
          => /\ screen' = print_to_screen(screen, UnknownOpcodeLine(OpcodeAt(cpu)))
             /\ ~cpu'.running
             /\ cpu'.regs = cpu.regs
             /\ cpu'.flags = cpu.flags
             /\ cpu'.sp = cpu.sp
             /\ cpu'.memory = cpu.memory]_vars

\* The byte 0xAB has been executed after registers, flags and sp had moved.
C23_Witness ==
    /\ hist.last.op = 171
    /\ ~cpu.running
    /\ cpu.regs[1] = 4660 /\ cpu.flags = 2 /\ cpu.sp = STACK_SIZE - 3
    /\ screen = print_to_screen(ScreenAtRun, UnknownOpcodeLine(171))

\* C24: load_program given a file longer than MEM_SIZE fails and leaves the
\* CPU (memory, pc, sp, regs, flags, running) as it was before the call,
\* which is as init_cpu left it; given any other file it copies the file to
\* memory from address 0, sets pc = 0 and running, and leaves the rest.
C24_LoadProgram ==
    (hist.runs > 1 /\ hist.last.op = -1)
        => IF hist.image.size > MEM_SIZE
           THEN /\ cpu = init_cpu
                /\ main.pc = "failed"
           ELSE /\ \A a \in DOMAIN cpu.memory \cup DOMAIN hist.image.bytes :
                      Mem(cpu, a) = IF a < hist.image.size
                                    THEN Get(hist.image.bytes, a, 0)
                                    ELSE Mem(init_cpu, a)
                /\ cpu.pc = 0 /\ cpu.running
                /\ cpu.sp = init_cpu.sp /\ cpu.regs = init_cpu.regs
                /\ cpu.flags = init_cpu.flags

\* A second run was given the file of 65537 bytes and has failed.
C24_Witness ==
    /\ hist.runs = 2 /\ hist.last.op = -1
    /\ hist.image = ImgTooLarge
    /\ main.pc = "failed"
    /\ hist.residue # Empty

\* STORE_REG r, A and LOAD_MEM r2, A both act, and the two bytes stored are
\* no part of the LOAD_MEM instruction (bytes 8 .. 11 of ImgRoundTrip).
RoundTripInRange(A) == A + 1 < MEM_SIZE /\ (A + 1 < 8 \/ A > 11)

\* C25 (amended): LOAD_REG r, v; STORE_REG r, A; LOAD_MEM r2, A leaves
\* regs[r2] = v for all registers r, r2, all values v and every address A
\* up to 0xFFFE whose two bytes are not part of the LOAD_MEM instruction.
C25_RoundTrip ==
    (hist.prog.kind = "roundtrip" /\ hist.steps = 3 /\ RoundTripInRange(hist.prog.A))
        => cpu.regs[hist.prog.r2] = hist.prog.v

\* The round trip through the last word of memory, 0xFFFE.
C25_Witness ==
    /\ hist.prog.kind = "roundtrip" /\ hist.steps = 3
    /\ hist.prog.A = MEM_SIZE - 2 /\ hist.prog.v = 4660 /\ hist.prog.r # hist.prog.r2
    /\ hist.last.op = OP_LOAD_MEM
    /\ cpu.regs[hist.prog.r2] = 4660

\* C25 as stated: the same for all 16-bit addresses A.
C25_RoundTripAnyAddress ==
    (hist.prog.kind = "roundtrip" /\ hist.steps = 3)
        => cpu.regs[hist.prog.r2] = hist.prog.v

\* C26: after CMP s1, s2 with both registers in 0 .. 7, flags is exactly
\* 1 (Zero) if regs[s1] = regs[s2], exactly 2 (Greater) if regs[s1] > regs[s2],
\* exactly 4 (Less) if regs[s1] < regs[s2], the registers compared as
\* unsigned 16-bit values; no other bit is set.
C26_CmpFlags ==
    LET b == hist.last.before
        x == b.regs[Mem(b, b.pc + 1)]
        y == b.regs[Mem(b, b.pc + 2)]
    IN (hist.last.op = OP_CMP /\ Complete(b) /\ ~BadReg(b))
          => /\ x \in 0 .. 65535 /\ y \in 0 .. 65535
             /\ cpu.flags \in {1, 2, 4}
             /\ cpu.flags = 1 <=> x = y
             /\ cpu.flags = 2 <=> x > y
             /\ cpu.flags = 4 <=> x < y

\* CMP has compared 0x8000 with 0x7FFF, with flags nonzero beforehand.
C26_Witness ==
    LET b == hist.last.before
    IN /\ hist.last.op = OP_CMP /\ Complete(b) /\ ~BadReg(b)
       /\ b.regs[Mem(b, b.pc + 1)] = 32768
       /\ b.regs[Mem(b, b.pc + 2)] = 32767
       /\ b.flags = 4
       /\ cpu.flags = 2

Stars == Cardinality({p \in DOMAIN screen.chars : screen.chars[p] = 42})

\* C28: the countdown program for n >= 1 writes exactly n '*' and then
\* halts: it never shows more than n stars, it stops at HALT after exactly
\* 3 + 4n + 1 instructions and not before, and it has then written n stars.
C28_Countdown ==
    hist.prog.kind = "countdown"
        => LET n == hist.prog.n
           IN /\ Stars <= n
              /\ hist.steps <= 4 * n + 4
              /\ ~cpu.running <=> hist.steps = 4 * n + 4
              /\ ~cpu.running => (Stars = n /\ hist.last.op = OP_HALT)

\* The spec's case: n = 5 has halted with five stars.
C28_Witness ==
    /\ hist.prog.kind = "countdown" /\ hist.prog.n = 5
    /\ ~cpu.running /\ hist.last.op = OP_HALT
    /\ Stars = 5
    /\ cpu.regs[0] = 0

\* (x, y) is a pixel of the plane.
InPlane(x, y) == x >= 0 /\ x < PIXEL_WIDTH /\ y >= 0 /\ y < PIXEL_HEIGHT

\* C29: pixel writes are clipped: after every instruction each pixel that is
\* not 0 lies in [0,320) x [0,200) and is 1; a SET_PIXEL at a point outside
\* leaves the pixels as they were; and so do a line, a rectangle, a filled
\* rectangle and a circle that lie wholly outside (those of ImgOutside).
C29_PixelClipping ==
    [][hist'.steps = hist.steps + 1
          => /\ \A p \in DOMAIN screen'.pixels :
                   InPlane(p[1], p[2]) /\ screen'.pixels[p] \in {0, 1}
             /\ (OpcodeAt(cpu) = OP_SET_PIXEL /\ Complete(cpu)
                   /\ ~InPlane(Word(cpu, cpu.pc + 1), Word(cpu, cpu.pc + 3)))
                  => screen'.pixels = screen.pixels
             /\ (Loaded(ImgOutside)
                   /\ OpcodeAt(cpu) \in {OP_DRAW_LINE, OP_DRAW_RECT, OP_FILL_RECT,
                                         OP_DRAW_CIRCLE})
                  => screen'.pixels = screen.pixels]_vars

\* ImgOutside has run to its HALT: of all its writes only the pixel (2,1),
\* written with the value 255, is on, as 1.
C29_Witness ==
    /\ Loaded(ImgOutside) /\ hist.runs = 1
    /\ ~cpu.running /\ hist.last.op = OP_HALT /\ hist.steps = 8
    /\ screen.pixels = [p \in {<<2, 1>>} |-> 1]

\* ImgCross has run to its HALT: the line down column 257 is on as far as
\* row 199, its first pixel switched off again.
C29_CrossWitness ==
    /\ Loaded(ImgCross) /\ ~cpu.running /\ hist.last.op = OP_HALT
    /\ Get(screen.pixels, <<257, 199>>, 0) = 1
    /\ Get(screen.pixels, <<257, 0>>, 0) = 0
    /\ Get(screen.pixels, <<1, 1>>, 0) = 1

\* C30: CLEAR_SCREEN is idempotent: a CLEAR_SCREEN executed right after a
\* CLEAR_SCREEN leaves every field of the screen as the first one left it.
C30_ClearScreenIdempotent ==
    [][(hist'.steps = hist.steps + 1 /\ hist.last.op = OP_CLEAR_SCREEN
          /\ OpcodeAt(cpu) = OP_CLEAR_SCREEN)
          => screen' = screen]_vars

\* ImgClearTwice has executed its second CLEAR_SCREEN, the first one having
\* wiped a character, a pixel, the colour and the cursor position.
C30_Witness ==
    /\ Loaded(ImgClearTwice) /\ hist.runs = 1
    /\ hist.last.op = OP_CLEAR_SCREEN /\ hist.last.at = 11
    /\ hist.last.quiet
    /\ screen = clear_screen_display
    /\ screen # ScreenAtRun

\* C31: every character stored in the text grid, by putchar_screen or by the
\* echo or the backspace of a key, is stored in a cell with row in 0 .. 24
\* and column in 0 .. 79.
C31_GridStoresInRange ==
    \A p \in DOMAIN screen.chars :
        /\ p[1] >= 0 /\ p[1] < SCREEN_HEIGHT
        /\ p[2] >= 0 /\ p[2] < SCREEN_WIDTH

\* C32: in a mutation of the screen by the program the store dirty = true
\* is the last one: once the call that sets dirty has returned, the rest of
\* the instruction writes no field of the screen.
C32_DirtyWrittenLast ==
    [][(main.pc = "tail" /\ main'.pc = "run")
          => [screen' EXCEPT !.dirty = screen.dirty] = screen]_vars

\* C33: the loop emitted by the generator's loop_test, run by the machine,
\* makes exactly ten iterations: it never shows more than ten '*', and once it
\* has stopped it has shown ten and stopped at the HALT after the loop.
C33_LoopTestTenIterations ==
    hist.prog.kind = "loop_test"
        => /\ Stars <= 10
           /\ ~cpu.running => (Stars = 10 /\ hist.last.op = OP_HALT)

\* C34: after COPY_MEM src,dst,len with src + len <= 65536 and
\* dst + len <= 65536, memory[dst+i] holds what memory[src+i] held before the
\* instruction for every i < len, and every other byte is as it was.
C34_CopyMemInMemory ==
    (/\ hist.prog.kind = "copy"
     /\ hist.last.op = OP_COPY_MEM
     /\ hist.prog.src + hist.prog.len <= MEM_SIZE
     /\ hist.prog.dst + hist.prog.len <= MEM_SIZE)
        => LET src == hist.prog.src
               dst == hist.prog.dst
               len == hist.prog.len
               old == hist.last.before
           IN \A a \in DOMAIN cpu.memory \cup DOMAIN old.memory
                       \cup (dst .. dst + len - 1) :
                 Mem(cpu, a) = IF a >= dst /\ a < dst + len
                               THEN Mem(old, a - dst + src)
                               ELSE Mem(old, a)

C36_ShutdownTerminates ==
    /\ (main.pc = "rl_poll" /\ ~window_running)
          ~> (main.pc = "terminated" /\ win.pc = "closed")
    /\ [][(main.pc = "dispatch" /\ ~window_running) => main'.pc \in {"dispatch", "exit"}]_vars
    /\ [][(main.pc = "rl_poll" /\ ~window_running) => main'.pc \in {"rl_poll", "rl_lock2"}]_vars
    /\ (main.pc = "exit") ~> (win.pc = "closed")

\* The window was closed while the shell was idle (no key was ever
\* delivered, so read_line_from_screen returned because of the close), and
\* the process has terminated.
C36_Witness ==
    /\ main.pc = "terminated" /\ win.pc = "closed" /\ ~window_running
    /\ hist.keys = 0 /\ hist.lines = 1
    /\ main.line_buf = <<101, 120, 105>>

\* The exit command was given and the process has terminated.
C36_ExitWitness ==
    /\ main.pc = "terminated" /\ win.pc = "closed"
    /\ IsExit(main.line_buf)
    /\ \E p \in DOMAIN screen.chars : screen.chars[p] = 71

\* C37: when putchar_screen writes a printable character with the cursor
\* below the last row, every row y in 0..23 gets the glyphs and the colours
\* row y+1 had, row 24 becomes spaces in current_color, and the character is
\* written on row 24 at the cursor column (column 0 if the cursor had run
\* past the end of the row and wrapped).
C37_ScrollOnWrite ==
    [][(/\ hist'.steps = hist.steps + 1
        /\ hist'.last.op \notin {NL, CR, BS, TAB}
        /\ screen.cursor_y >= SCREEN_HEIGHT)
          => LET col == IF screen.cursor_x >= SCREEN_WIDTH THEN 0 ELSE screen.cursor_x
             IN /\ \A y \in 0 .. SCREEN_HEIGHT - 2, x \in 0 .. SCREEN_WIDTH - 1 :
                      /\ Get(screen'.chars, <<y, x>>, SPACE)
                            = Get(screen.chars, <<y + 1, x>>, SPACE)
                      /\ Get(screen'.colors, <<y, x>>, COLOR_WHITE)
                            = Get(screen.colors, <<y + 1, x>>, COLOR_WHITE)
                /\ \A x \in 0 .. SCREEN_WIDTH - 1 :
                      /\ Get(screen'.chars, <<SCREEN_HEIGHT - 1, x>>, SPACE)
                            = IF x = col THEN hist'.last.op ELSE SPACE
                      /\ Get(screen'.colors, <<SCREEN_HEIGHT - 1, x>>, COLOR_WHITE)
                            = screen.current_color
                /\ screen'.cursor_y = SCREEN_HEIGHT - 1
                /\ screen'.cursor_x = col + 1]_vars

\* 'x' was written in bright green with the cursor at row 25, column 4: the
\* cyan "hi" and the white "yo" have moved up to rows 22 and 23, and row 24
\* is green with the 'x' in column 4.
C37_Witness ==
    /\ hist.steps = 1 /\ hist.last.op = 120
    /\ screen.cursor_y = SCREEN_HEIGHT - 1 /\ screen.cursor_x = 5
    /\ Get(screen.chars, <<22, 0>>, SPACE) = 104
    /\ Get(screen.colors, <<22, 0>>, COLOR_WHITE) = COLOR_BRIGHT_CYAN
    /\ Get(screen.chars, <<23, 0>>, SPACE) = 121
    /\ Get(screen.chars, <<24, 4>>, SPACE) = 120
    /\ \A x \in 0 .. SCREEN_WIDTH - 1 :
          Get(screen.colors, <<24, x>>, COLOR_WHITE) = COLOR_BRIGHT_GREEN

\* C38: an instruction other than CMP leaves flags as it found it.
C38_FlagsOnlyByCmp ==
    [][(hist'.steps = hist.steps + 1 /\ hist'.last.op # OP_CMP)
          => cpu'.flags = cpu.flags]_vars

\* C39: whatever keys are typed and lines read, 0 <= pos <= 255 and every
\* byte of the line lies inside the 256-byte buffer; and Enter stores its NUL
\* at buffer[pos], an index inside the buffer.
C39_PosInBuffer ==
    /\ [](/\ input_buf.pos >= 0 /\ input_buf.pos <= INPUT_BUFFER_SIZE - 1
          /\ DOMAIN input_buf.buffer \subseteq 0 .. INPUT_BUFFER_SIZE - 1)
    /\ [][(win.pc = "key" /\ win'.pc = "events" /\ win.key = XK_Return)
             => /\ input_buf.pos <= INPUT_BUFFER_SIZE - 1
                /\ Get(input_buf'.buffer, input_buf.pos, 0) = 0
                /\ \A i \in 0 .. INPUT_BUFFER_SIZE - 1 :
                      i # input_buf.pos
                         => Get(input_buf'.buffer, i, 0) = Get(input_buf.buffer, i, 0)]_vars

\* The line is full (pos = 255, 255 characters in the buffer), a further key
\* was dropped and Enter has stored its NUL in the last byte.
C39_Witness ==
    /\ input_buf.pos = INPUT_BUFFER_SIZE - 1
    /\ \A i \in 0 .. INPUT_BUFFER_SIZE - 2 : Get(input_buf.buffer, i, 0) = 107
    /\ Get(input_buf.buffer, INPUT_BUFFER_SIZE - 1, 0) = 0
    /\ input_buf.ready
    /\ hist.keys = 4 /\ win.pc = "events" /\ win.key = XK_Return

\* C40: mv s d on an existing file s loses no data: afterwards the bytes s
\* held are stored under d or are still stored under s (also when d = s).
C40_MvKeepsData ==
    [][(/\ main.pc = "dispatch" /\ main'.pc = "prompt"
        /\ IsMv(main.line_buf) /\ Len(Tokens(main.line_buf)) >= 3
        /\ Tokens(main.line_buf)[2] \in DOMAIN fs.disk)
          => LET s == Tokens(main.line_buf)[2]
                 d == Tokens(main.line_buf)[3]
             IN \/ d \in DOMAIN fs'.disk /\ fs'.disk[d] = fs.disk[s]
                \/ s \in DOMAIN fs'.disk /\ fs'.disk[s] = fs.disk[s]]_vars

====
